---- MODULE Spec2Model ----
(***************************************************************************)
(* A model of the type inference engine of notJoon/generic: the type       *)
(* values (src/unnamed/part_000), the unifier (src/unification.go), the    *)
(* constraint checker (src/constraint.go) and generic instantiation        *)
(* (src/infer.go).                                                         *)
(*                                                                         *)
(* Go pointers are addresses into `heap`; a Go map is a heap object of its *)
(* own, so that sharing and in-place updates are visible.  The order in    *)
(* which Go ranges over a map is unspecified: every operation takes the    *)
(* order `o` as an input.  A call that never returns (an endless loop in   *)
(* resolve, an endless recursion in Unify or occurs) yields "diverge".     *)
(***************************************************************************)
EXTENDS Integers, Sequences, FiniteSets, TLC

VARIABLES heap, env, last, inst

vars == <<heap, env, last, inst>>

\* the nil pointer / the absent map entry
Nil == 0

\* the value standing for "this call does not return"
Diverges == 0 - 1

\* ------------------------------------------------------------------------
\* The type values the operations are applied to.  Each label is one Go
\* object; two labels with equal contents are two distinct objects.
\* ------------------------------------------------------------------------

TypeLabels ==
  << "tvT", "tvT2", "tvU", "cInt", "cInt2", "cString",
     "fCirc", "fU_int", "fT_str", "fT2_int", "fTU_int",
     "fInt_int", "fIntStr_int", "fInt_intV",
     "tIntStr", "pInt", "sT", "aInt", "mStrT",
     "stS", "iTop", "iEmpty", "iRead", "iReadClose", "iEmb", "iOther",
     "gListT", "alMyInt" >>

\* the generic definitions that are instantiated, and the nodes they are made of
GenericLabels ==
  << "sInt",
     "bxT", "bxT1", "bxT2", "bxT3", "gBox",
     "shT", "gShare",
     "pK", "pV", "pK1", "pV1", "pK2", "pV2", "pSlice", "pMap", "pFn", "gPair",
     "oT", "inT", "inT1", "gInner", "gOuter",
     "nT", "nT1", "gNum",
     "gBoxInt" >>

MapLabels ==
  << "stS.Fields", "iRead.Methods", "iReadClose.Methods", "iOther.Methods",
     "gBox.Constraints", "gBox.Fields", "gBox.Methods",
     "gShare.Fields", "gShare.Methods",
     "gPair.Constraints", "gPair.Fields",
     "gInner.Fields", "gOuter.Fields",
     "gNum.Constraints", "gNum.Fields",
     "gBoxInt.Fields" >>

\* the recursive generic Tree: as the tests build it, left and right two
\* objects of their own (gTreeT), and with left and right the object of the
\* definition itself (gTree)
TreeLabels ==
  << "ttT", "ttT1", "ttT2", "ttT3", "ttL", "ttR", "gTreeT",
     "trT", "trT1", "gTree",
     "gTreeT.Fields", "gTree.Fields" >>

\* more type values that constraints are checked on
ConstraintLabels ==
  << "cBool", "cFloat64", "cFoo", "pT", "ppInt", "pS", "stBad", "aSlice", "stR",
     "stBad.Fields", "stR.Methods" >>

\* the constants InferType makes for literals, and the functions that are called
InferLabels ==
  << "litInt", "litFloat64", "litFloat32", "litString", "litRune",
     "fnIntStr", "fnRead", "fnPairT", "tvT3", "fnIntTuple" >>

\* types with aliases inside, and an alias of an alias
UnderlyingLabels == << "sMyInt", "alId" >>

\* the constants of the primitive names the catalog does not have yet
BuiltinLabels ==
  << "int8", "int16", "int32", "int64", "uint", "uint8", "uint16", "uint32", "uint64",
     "uintptr", "float32", "complex64", "complex128" >>

\* two interfaces of one name whose method differs in its result
ResultLabels == << "iGetInt", "iGetStr", "iGetInt.Methods", "iGetStr.Methods" >>

\* a struct with a field of a constant, of the top interface, of a struct and
\* of a variable
StructLabels == << "stP", "stP.Fields" >>

\* maps and a tuple whose first position holds a variable or does not unify
PositionLabels == << "mTInt", "mIntStr", "tTInt" >>

Labels ==
  TypeLabels \o GenericLabels \o MapLabels \o TreeLabels \o ConstraintLabels \o InferLabels
    \o UnderlyingLabels \o BuiltinLabels \o ResultLabels \o StructLabels
    \o PositionLabels

A(l) == CHOOSE i \in 1..Len(Labels) : Labels[i] = l

Method(n, ps, rs, ptr) == [name |-> n, params |-> ps, results |-> rs, isPointer |-> ptr]

Entry(k, v) == [key |-> k, val |-> v]

TypeVariable(n) == [kind |-> "Var", name |-> n]
TypeConstant(n) == [kind |-> "Const", name |-> n]
FunctionType(ps, r, v) == [kind |-> "Func", params |-> ps, ret |-> r, isVariadic |-> v]
TupleType(ts) == [kind |-> "Tuple", types |-> ts]
PointerType(b) == [kind |-> "Ptr", base |-> b]
SliceType(e) == [kind |-> "Slice", elem |-> e]
ArrayType(e, n) == [kind |-> "Array", elem |-> e, len |-> n]
MapType(k, v) == [kind |-> "Map", keyT |-> k, valT |-> v]
StructType(n, f, m) == [kind |-> "Struct", name |-> n, fields |-> f, methods |-> m]
InterfaceType(n, m, emb, e) ==
  [kind |-> "Iface", name |-> n, methods |-> m, embedded |-> emb, isEmpty |-> e]
GenericType(n, tps, cs, f, m) ==
  [kind |-> "Generic", name |-> n, typeParams |-> tps, constraints |-> cs,
   fields |-> f, methods |-> m]
TypeAlias(n, t) == [kind |-> "Alias", name |-> n, target |-> t]
GoMap(es) == [kind |-> "gomap", entries |-> es]
Interface(n, m) == [name |-> n, methods |-> m]
TypeConstraint(is, ts, u, cmp, und, b) ==
  [interfaces |-> is, types |-> ts, union |-> u, isComparable |-> cmp,
   isUnderlying |-> und, builtinConstraint |-> b]

\* the generic definitions and their nodes
UnderlyingNode(l) ==
  CASE l = "sMyInt" -> SliceType(A("alMyInt"))
    [] l = "stP" -> StructType("P", A("stP.Fields"), Nil)
    [] l = "mTInt" -> MapType(A("tvT"), A("cInt"))
    [] l = "mIntStr" -> MapType(A("cInt"), A("cString"))
    [] l = "tTInt" -> TupleType(<<A("tvT"), A("cInt")>>)
    [] l = "stP.Fields" ->
         GoMap(<<Entry("x", A("cInt")), Entry("items", A("iTop")), Entry("inner", A("stS")),
                 Entry("v", A("tvT3"))>>)
    [] l = "iGetInt" -> InterfaceType("G", A("iGetInt.Methods"), <<>>, FALSE)
    [] l = "iGetStr" -> InterfaceType("G", A("iGetStr.Methods"), <<>>, FALSE)
    [] l = "iGetInt.Methods" ->
         GoMap(<<Entry("Get", Method("Get", <<>>, <<A("cInt")>>, FALSE))>>)
    [] l = "iGetStr.Methods" ->
         GoMap(<<Entry("Get", Method("Get", <<>>, <<A("cString")>>, FALSE))>>)
    [] l = "alId" -> TypeAlias("Id", A("alMyInt"))
    [] OTHER -> TypeConstant(l)

InferNode(l) ==
  CASE l = "litInt" -> TypeConstant("int")
    [] l = "litFloat64" -> TypeConstant("float64")
    [] l = "litFloat32" -> TypeConstant("float32")
    [] l = "litString" -> TypeConstant("string")
    [] l = "litRune" -> TypeConstant("rune")
    [] l = "fnIntStr" -> FunctionType(<<A("cInt")>>, A("cString"), FALSE)
    [] l = "fnRead" -> FunctionType(<<A("iRead")>>, A("cInt"), FALSE)
    [] l = "tvT3" -> TypeVariable("T")
    [] l = "fnPairT" -> FunctionType(<<A("tvT3"), A("tvT3")>>, A("tvT3"), FALSE)
    [] l = "fnIntTuple" -> FunctionType(<<>>, A("tIntStr"), FALSE)
    [] OTHER -> UnderlyingNode(l)

ConstraintNode(l) ==
  CASE l = "cBool" -> TypeConstant("bool")
    [] l = "cFloat64" -> TypeConstant("float64")
    [] l = "cFoo" -> TypeConstant("Foo")
    [] l = "pT" -> PointerType(A("tvT"))
    [] l = "ppInt" -> PointerType(A("pInt"))
    [] l = "pS" -> PointerType(A("sInt"))
    [] l = "stBad" -> StructType("Bad", A("stBad.Fields"), Nil)
    [] l = "aSlice" -> ArrayType(A("sInt"), 2)
    [] l = "stR" -> StructType("Rd", Nil, A("stR.Methods"))
    [] l = "stBad.Fields" -> GoMap(<<Entry("x", A("sInt"))>>)
    [] l = "stR.Methods" ->
         GoMap(<<Entry("Read", Method("Read", <<A("cInt")>>, <<>>, FALSE))>>)
    [] OTHER -> InferNode(l)

TreeNode(l) ==
  CASE l \in {"ttT", "ttT1", "ttT2", "ttT3", "trT", "trT1"} -> TypeVariable("T")
    [] l = "ttL" -> GenericType("Tree", <<A("ttT2")>>, Nil, Nil, Nil)
    [] l = "ttR" -> GenericType("Tree", <<A("ttT3")>>, Nil, Nil, Nil)
    [] l = "gTreeT" -> GenericType("Tree", <<A("ttT")>>, Nil, A("gTreeT.Fields"), Nil)
    [] l = "gTree" -> GenericType("Tree", <<A("trT")>>, Nil, A("gTree.Fields"), Nil)
    [] l = "gTreeT.Fields" ->
         GoMap(<<Entry("value", A("ttT1")), Entry("left", A("ttL")),
                 Entry("right", A("ttR"))>>)
    [] l = "gTree.Fields" ->
         GoMap(<<Entry("value", A("trT1")), Entry("left", A("gTree")),
                 Entry("right", A("gTree"))>>)
    [] OTHER -> ConstraintNode(l)

GenericNode(l) ==
  CASE l = "sInt"   -> SliceType(A("cInt"))
    [] l \in {"bxT", "bxT1", "bxT2", "bxT3", "shT", "oT", "inT", "inT1", "nT", "nT1"} ->
         TypeVariable("T")
    [] l \in {"pK", "pK1", "pK2"} -> TypeVariable("K")
    [] l \in {"pV", "pV1", "pV2"} -> TypeVariable("V")
    [] l = "gBox"   -> GenericType("Box", <<A("bxT")>>, A("gBox.Constraints"),
                                   A("gBox.Fields"), A("gBox.Methods"))
    [] l = "gShare" -> GenericType("Cell", <<A("shT")>>, Nil,
                                   A("gShare.Fields"), A("gShare.Methods"))
    [] l = "pSlice" -> SliceType(A("pV1"))
    [] l = "pMap"   -> MapType(A("pK1"), A("pSlice"))
    [] l = "pFn"    -> FunctionType(<<A("pK2")>>, A("pV2"), FALSE)
    [] l = "gPair"  -> GenericType("Pair", <<A("pK"), A("pV")>>, A("gPair.Constraints"),
                                   A("gPair.Fields"), Nil)
    [] l = "gInner" -> GenericType("Inner", <<A("inT")>>, Nil, A("gInner.Fields"), Nil)
    [] l = "gOuter" -> GenericType("Outer", <<A("oT")>>, Nil, A("gOuter.Fields"), Nil)
    [] l = "gNum"   -> GenericType("Num", <<A("nT")>>, A("gNum.Constraints"),
                                   A("gNum.Fields"), Nil)
    [] l = "gBoxInt" -> GenericType("Box", <<A("cInt")>>, Nil, A("gBoxInt.Fields"), Nil)
    [] l = "gBox.Constraints" ->
         GoMap(<<Entry("T", TypeConstraint(<<>>, <<A("cInt")>>, FALSE, FALSE, FALSE, ""))>>)
    [] l = "gBox.Fields" -> GoMap(<<Entry("value", A("bxT1"))>>)
    [] l = "gBox.Methods" ->
         GoMap(<<Entry("Get", Method("Get", <<>>, <<A("bxT2")>>, FALSE)),
                 Entry("Set", Method("Set", <<A("bxT3")>>, <<>>, TRUE))>>)
    [] l = "gShare.Fields" ->
         GoMap(<<Entry("first", A("shT")), Entry("second", A("shT"))>>)
    [] l = "gShare.Methods" ->
         GoMap(<<Entry("Get", Method("Get", <<>>, <<A("shT")>>, FALSE))>>)
    [] l = "gPair.Constraints" ->
         GoMap(<<Entry("K", TypeConstraint(<<>>, <<>>, FALSE, FALSE, FALSE, "comparable"))>>)
    [] l = "gPair.Fields" -> GoMap(<<Entry("items", A("pMap")), Entry("fn", A("pFn"))>>)
    [] l = "gInner.Fields" -> GoMap(<<Entry("v", A("inT1"))>>)
    [] l = "gOuter.Fields" -> GoMap(<<Entry("inner", A("gInner"))>>)
    [] l = "gNum.Constraints" ->
         GoMap(<<Entry("T", TypeConstraint(<<Interface("Stringer", Nil)>>, <<A("cInt")>>,
                                           FALSE, FALSE, TRUE, ""))>>)
    [] l = "gNum.Fields" -> GoMap(<<Entry("n", A("nT1"))>>)
    [] l = "gBoxInt.Fields" -> GoMap(<<Entry("value", A("cInt"))>>)
    [] OTHER -> TreeNode(l)

Node(l) ==
  CASE l = "tvT"      -> TypeVariable("T")
    [] l = "tvT2"     -> TypeVariable("T")
    [] l = "tvU"      -> TypeVariable("U")
    [] l = "cInt"     -> TypeConstant("int")
    [] l = "cInt2"    -> TypeConstant("int")
    [] l = "cString"  -> TypeConstant("string")
    [] l = "fCirc"    -> FunctionType(<<A("tvT")>>, A("tvT"), FALSE)
    [] l = "fU_int"   -> FunctionType(<<A("tvU")>>, A("cInt"), FALSE)
    [] l = "fT_str"   -> FunctionType(<<A("tvT")>>, A("cString"), FALSE)
    [] l = "fT2_int"  -> FunctionType(<<A("tvT2")>>, A("cInt"), FALSE)
    [] l = "fTU_int"  -> FunctionType(<<A("tvT"), A("tvU")>>, A("cInt"), FALSE)
    [] l = "fInt_int" -> FunctionType(<<A("cInt")>>, A("cInt"), FALSE)
    [] l = "fIntStr_int" -> FunctionType(<<A("cInt"), A("cString")>>, A("cInt"), FALSE)
    [] l = "fInt_intV" -> FunctionType(<<A("cInt")>>, A("cInt"), TRUE)
    [] l = "tIntStr"  -> TupleType(<<A("cInt"), A("cString")>>)
    [] l = "pInt"     -> PointerType(A("cInt"))
    [] l = "sT"       -> SliceType(A("tvT"))
    [] l = "aInt"     -> ArrayType(A("cInt"), 3)
    [] l = "mStrT"    -> MapType(A("cString"), A("tvT"))
    [] l = "stS"      -> StructType("S", A("stS.Fields"), Nil)
    [] l = "iTop"     -> InterfaceType("interface{}", Nil, <<>>, TRUE)
    [] l = "iEmpty"   -> InterfaceType("", Nil, <<>>, TRUE)
    [] l = "iRead"    -> InterfaceType("R", A("iRead.Methods"), <<>>, FALSE)
    [] l = "iReadClose" -> InterfaceType("R", A("iReadClose.Methods"), <<>>, FALSE)
    [] l = "iEmb"     -> InterfaceType("R", Nil, <<A("iOther")>>, FALSE)
    [] l = "iOther"   -> InterfaceType("E", A("iOther.Methods"), <<>>, FALSE)
    [] l = "gListT"   -> GenericType("List", <<A("tvT")>>, Nil, Nil, Nil)
    [] l = "alMyInt"  -> TypeAlias("MyInt", A("cInt"))
    [] l = "stS.Fields" -> GoMap(<<Entry("x", A("cInt"))>>)
    [] l = "iRead.Methods" ->
         GoMap(<<Entry("Read", Method("Read", <<A("tvT")>>, <<>>, FALSE))>>)
    [] l = "iReadClose.Methods" ->
         GoMap(<<Entry("Read", Method("Read", <<A("cInt")>>, <<>>, FALSE)),
                 Entry("Close", Method("Close", <<>>, <<>>, FALSE))>>)
    [] l = "iOther.Methods" ->
         GoMap(<<Entry("Em", Method("Em", <<>>, <<>>, FALSE))>>)
    [] OTHER -> GenericNode(l)

Catalog == [i \in 1..Len(Labels) |-> Node(Labels[i])]

\* the addresses of the type values of the catalog
Types == {A(TypeLabels[i]) : i \in 1..Len(TypeLabels)}

\* the names a TypeEnv is indexed by here: the names of the type variables
\* that are unified, and the identifiers of the types that are declared
Names == {"T", "U", "int", "string", "MyInt", "x", "s", "f", "r", "p", "Pair", "Box", "R", "z", "P", "S"}

EmptyEnv == [n \in Names |-> Nil]

\* ------------------------------------------------------------------------
\* Ranging over a Go map: the entries in the order the input `o` gives.
\* ------------------------------------------------------------------------

\* len(m) of the largest map of MapLabels, the maps the calls of Unify and of
\* InstantiateGenericType on Templates range over; the calls make no larger one
MaxMapLen ==
  LET lens == {Len(Catalog[A(MapLabels[i])].entries) : i \in 1..Len(MapLabels)}
  IN CHOOSE n \in lens : \A k \in lens : k <= n

Perms(n) == {p \in [1..n -> 1..n] : \A i, j \in 1..n : i # j => p[i] # p[j]}

Orders == Perms(MaxMapLen)

\* the keys of the maps, in the order the entries of a map are kept in (a Go
\* map has no order of its own)
KeyNames ==
  << "x", "Read", "Close", "Em", "T", "K", "value", "Get", "Set", "first", "second",
     "items", "fn", "inner", "v", "n", "left", "right" >>

KeyIdx(k) == CHOOSE i \in 1..Len(KeyNames) : KeyNames[i] = k

EntriesOf(h, m) == IF m = Nil THEN <<>> ELSE h[m].entries

\* for k, v := range m, in the order o
RangeOf(h, m, o) ==
  LET es == EntriesOf(h, m)
      RECURSIVE Pick(_)
      Pick(i) == IF i > Len(o) THEN <<>>
                 ELSE IF o[i] <= Len(es) THEN <<es[o[i]]>> \o Pick(i + 1)
                 ELSE Pick(i + 1)
  IN Pick(1)

\* _, ok := m[k]
HasKeyIn(h, m, k) == \E i \in 1..Len(EntriesOf(h, m)) : EntriesOf(h, m)[i].key = k

\* m[k]
LookupIn(h, m, k) ==
  EntriesOf(h, m)[CHOOSE i \in 1..Len(EntriesOf(h, m)) : EntriesOf(h, m)[i].key = k].val

\* m[k] = v: the map object m is updated in place
MapPut(h, m, k, v) ==
  LET es == h[m].entries
      before == SelectSeq(es, LAMBDA e : KeyIdx(e.key) < KeyIdx(k))
      after == SelectSeq(es, LAMBDA e : KeyIdx(e.key) > KeyIdx(k))
  IN [h EXCEPT ![m].entries = before \o <<[key |-> k, val |-> v]>> \o after]

\* a new object: the heap with it, and its address
Alloc(h, node) == [h |-> Append(h, node), a |-> Len(h) + 1]

Entries(m) == EntriesOf(heap, m)

Range(m, o) == RangeOf(heap, m, o)

HasKey(m, k) == HasKeyIn(heap, m, k)

Lookup(m, k) == LookupIn(heap, m, k)

\* ------------------------------------------------------------------------
\* unification.go
\* ------------------------------------------------------------------------

Res(e, en) == [err |-> e, env |-> en]

IsVar(t) == heap[t].kind = "Var"

Bound(en, n) == en[n] # Nil

\* resolve: the loop follows variable bindings; it never ends once it meets a
\* name for the second time.
RECURSIVE resolveLoop(_, _, _)
resolveLoop(t, en, seen) ==
  IF IsVar(t) /\ Bound(en, heap[t].name)
  THEN IF heap[t].name \in seen
       THEN Diverges
       ELSE resolveLoop(en[heap[t].name], en, seen \cup {heap[t].name})
  ELSE t

resolve(t, en) == resolveLoop(t, en, {})

isInterfaceAny(t) == heap[t].kind = "Iface" /\ heap[t].name = "interface{}"

\* occurs: "true", "false", or "diverge" when the recursion meets a Function
\* it is already inside of.
RECURSIVE occursIn(_, _, _, _), occursParams(_, _, _, _, _)
occursIn(v, t, en, path) ==
  LET r == resolve(t, en) IN
  IF r = Diverges THEN "diverge"
  ELSE IF IsVar(r)
  THEN IF v = r THEN "true"
       ELSE IF Bound(en, heap[r].name) THEN occursIn(v, en[heap[r].name], en, path)
       ELSE "false"
  ELSE IF heap[r].kind = "Func"
  THEN IF r \in path THEN "diverge"
       ELSE occursParams(v, r, 1, en, path \cup {r})
  ELSE "false"

occursParams(v, f, i, en, path) ==
  IF i > Len(heap[f].params)
  THEN occursIn(v, heap[f].ret, en, path)
  ELSE LET oc == occursIn(v, heap[f].params[i], en, path) IN
       IF oc = "false" THEN occursParams(v, f, i + 1, en, path) ELSE oc

\* a variant of occurs that takes a slice, a map and a generic to hold v
occursInside(v, t, en) ==
  IF resolve(t, en) # Diverges /\ heap[resolve(t, en)].kind \in {"Slice", "Map", "Generic"}
  THEN "true"
  ELSE occursIn(v, t, en, {})

occurs(v, t, en) == occursIn(v, t, en, {})

\* env[v.Name] = t
bind(en, v, t) == [en EXCEPT ![heap[v].name] = t]

RECURSIVE UnifyIn(_, _, _, _, _), unifyVar(_, _, _, _, _), UnifySeq(_, _, _, _, _, _),
          unifyMethods(_, _, _, _, _, _), unifyEmbedded(_, _, _, _, _, _)

unifyVar(v, t0, en, o, stk) ==
  LET t == resolve(t0, en) IN
  IF t = Diverges THEN Res("diverge", en)
  ELSE IF v = t THEN Res("nil", en)
  ELSE IF Bound(en, heap[v].name) THEN UnifyIn(en[heap[v].name], t, en, o, stk)
  ELSE IF IsVar(t) /\ Bound(en, heap[t].name)
  THEN unifyVar(v, en[heap[t].name], en, o, stk)
  ELSE LET oc == occurs(v, t, en) IN
       IF oc = "diverge" THEN Res("diverge", en)
       ELSE IF oc = "true" THEN Res("CircularReference", en)
       ELSE Res("nil", bind(en, v, t))

\* the pairwise loops: the first error ends the loop
UnifySeq(xs, ys, i, en, o, stk) ==
  IF i > Len(xs) THEN Res("nil", en)
  ELSE LET r == UnifyIn(xs[i], ys[i], en, o, stk) IN
       IF r.err # "nil" THEN r ELSE UnifySeq(xs, ys, i + 1, r.env, o, stk)

unifyMethod(m1, m2, en, o, stk) ==
  IF m1.name # m2.name \/ m1.isPointer # m2.isPointer THEN Res("TypeMismatch", en)
  ELSE IF Len(m1.params) # Len(m2.params) \/ Len(m1.results) # Len(m2.results)
  THEN Res("ArityMismatch", en)
  ELSE UnifySeq(m1.params, m2.params, 1, en, o, stk)

\* for name, method1 := range t1.Methods
unifyMethods(ms, m2, i, en, o, stk) ==
  IF i > Len(ms) THEN Res("nil", en)
  ELSE IF ~HasKey(m2, ms[i].key) THEN Res("TypeMismatch", en)
  ELSE LET r == unifyMethod(ms[i].val, Lookup(m2, ms[i].key), en, o, stk) IN
       IF r.err # "nil" THEN r ELSE unifyMethods(ms, m2, i + 1, r.env, o, stk)

\* for _, embedded := range t1.Embedded
unifyEmbedded(es, t2, i, en, o, stk) ==
  IF i > Len(es) THEN Res("nil", en)
  ELSE LET r == UnifyIn(es[i], t2, en, o, stk) IN
       IF r.err # "nil" THEN r ELSE unifyEmbedded(es, t2, i + 1, r.env, o, stk)

\* a variant of the Constant case that compares the two objects, not their names
unifyConstantByPointer(t1, t2, en) ==
  IF heap[t2].kind # "Const" \/ t1 # t2
  THEN Res("TypeMismatch", en)
  ELSE Res("nil", en)

\* case *TypeConstant
unifyConstant(t1, t2, en) ==
  IF heap[t2].kind # "Const" \/ heap[t1].name # heap[t2].name
  THEN Res("TypeMismatch", en)
  ELSE Res("nil", en)

\* a variant of the Function case that unifies the parameters both functions
\* have before it compares the flags and the counts
unifyFunctionLate(t1, t2, en, o, stk) ==
  LET n1 == heap[t1]
      n2 == heap[t2]
      k  == IF Len(n1.params) < Len(n2.params) THEN Len(n1.params) ELSE Len(n2.params)
  IN
  IF n2.kind # "Func" THEN Res("TypeMismatch", en)
  ELSE LET r == UnifySeq(SubSeq(n1.params, 1, k), SubSeq(n2.params, 1, k), 1, en, o, stk) IN
       IF r.err # "nil" THEN r
       ELSE IF n1.isVariadic # n2.isVariadic THEN Res("TypeMismatch", r.env)
       ELSE IF Len(n1.params) # Len(n2.params) THEN Res("ArityMismatch", r.env)
       ELSE UnifyIn(n1.ret, n2.ret, r.env, o, stk)

\* a variant of the Function case that gives the environment back as it was
\* when a parameter or the return type does not unify
unifyFunctionAtomic(t1, t2, en, o, stk) ==
  LET n1 == heap[t1]
      n2 == heap[t2]
  IN
  IF n2.kind # "Func" THEN Res("TypeMismatch", en)
  ELSE IF n1.isVariadic # n2.isVariadic THEN Res("TypeMismatch", en)
  ELSE IF Len(n1.params) # Len(n2.params) THEN Res("ArityMismatch", en)
  ELSE LET r == UnifySeq(n1.params, n2.params, 1, en, o, stk) IN
       IF r.err # "nil" THEN Res(r.err, en)
       ELSE LET q == UnifyIn(n1.ret, n2.ret, r.env, o, stk) IN
            IF q.err # "nil" THEN Res(q.err, en) ELSE q

\* case *FunctionType
unifyFunction(t1, t2, en, o, stk) ==
  LET n1 == heap[t1]
      n2 == heap[t2]
  IN
  IF n2.kind # "Func" THEN Res("TypeMismatch", en)
  ELSE IF n1.isVariadic # n2.isVariadic THEN Res("TypeMismatch", en)
  ELSE IF Len(n1.params) # Len(n2.params) THEN Res("ArityMismatch", en)
  ELSE LET r == UnifySeq(n1.params, n2.params, 1, en, o, stk) IN
       IF r.err # "nil" THEN r
       ELSE UnifyIn(n1.ret, n2.ret, r.env, o, stk)

\* the switch of Unify on the resolved types t1, t2
UnifyResolved(t1, t2, en, o, stk) ==
  LET n1 == heap[t1]
      n2 == heap[t2]
      k2 == heap[t2].kind
  IN
  CASE n1.kind = "Var" -> unifyVar(t1, t2, en, o, stk)
    [] n1.kind = "Const" -> unifyConstant(t1, t2, en)
    [] n1.kind = "Func" -> unifyFunction(t1, t2, en, o, stk)
    [] n1.kind = "Tuple" ->
         IF k2 # "Tuple" THEN Res("TypeMismatch", en)
         ELSE IF Len(n1.types) # Len(n2.types) THEN Res("ArityMismatch", en)
         ELSE UnifySeq(n1.types, n2.types, 1, en, o, stk)
    [] n1.kind = "Slice" ->
         IF k2 = "Slice" THEN UnifyIn(n1.elem, n2.elem, en, o, stk)
         ELSE Res("UnknownType", en)
    [] n1.kind = "Generic" ->
         IF k2 # "Generic" THEN Res("TypeMismatch", en)
         ELSE IF n1.name # n2.name \/ Len(n1.typeParams) # Len(n2.typeParams)
         THEN Res("TypeMismatch", en)
         ELSE UnifySeq(n1.typeParams, n2.typeParams, 1, en, o, stk)
    [] n1.kind = "Iface" ->
         IF n1.isEmpty THEN Res("nil", en)
         ELSE IF k2 # "Iface" THEN Res("panic", en)
         ELSE IF n2.isEmpty THEN Res("nil", en)
         ELSE IF n1.name # n2.name THEN Res("TypeMismatch", en)
         ELSE LET r == unifyMethods(Range(n1.methods, o), n2.methods, 1, en, o, stk) IN
              IF r.err # "nil" THEN r
              ELSE unifyEmbedded(n1.embedded, t2, 1, r.env, o, stk)
    [] n1.kind = "Map" ->
         IF k2 # "Map" THEN Res("TypeMismatch", en)
         ELSE LET r == UnifyIn(n1.keyT, n2.keyT, en, o, stk) IN
              IF r.err # "nil" THEN r
              ELSE UnifyIn(n1.valT, n2.valT, r.env, o, stk)
    [] n1.kind = "Ptr" ->
         IF k2 # "Ptr" THEN Res("TypeMismatch", en)
         ELSE UnifyIn(n1.base, n2.base, en, o, stk)
    [] OTHER -> Res("UnknownType", en)

\* Unify, with the calls it is inside of: a call with the arguments and the
\* environment of a call it is inside of repeats that call for ever.
UnifyIn(t1, t2, en, o, stk) ==
  IF <<t1, t2, en>> \in stk THEN Res("diverge", en)
  ELSE LET r1 == resolve(t1, en)
           r2 == resolve(t2, en)
       IN
       IF r1 = Diverges \/ r2 = Diverges THEN Res("diverge", en)
       ELSE IF isInterfaceAny(r1) \/ isInterfaceAny(r2) THEN Res("nil", en)
       ELSE UnifyResolved(r1, r2, en, o, stk \cup {<<t1, t2, en>>})

\* a variant of Unify that binds a Variable on the left without resolving it
UnifyRebind(t1, t2, en, o) ==
  IF IsVar(t1) /\ ~IsVar(t2) /\ heap[t2].kind # "Iface"
  THEN IF occurs(t1, t2, EmptyEnv) = "true" THEN Res("CircularReference", en)
       ELSE Res("nil", bind(en, t1, t2))
  ELSE UnifyIn(t1, t2, en, o, {})

Unify(t1, t2, en, o) == UnifyIn(t1, t2, en, o, {})

\* ------------------------------------------------------------------------
\* constraint.go
\* ------------------------------------------------------------------------

\* the names of the primitive types and of the builtin constraints
TypeInt == "int"
TypeInt8 == "int8"
TypeInt16 == "int16"
TypeInt32 == "int32"
TypeInt64 == "int64"
TypeUint == "uint"
TypeUint8 == "uint8"
TypeUint16 == "uint16"
TypeUint32 == "uint32"
TypeUint64 == "uint64"
TypeUintptr == "uintptr"
TypeFloat32 == "float32"
TypeFloat64 == "float64"
TypeComplex64 == "complex64"
TypeComplex128 == "complex128"
TypeString == "string"
TypeBool == "bool"

ConstraintAny == "any"
ConstraintComparable == "comparable"
ConstraintOrdered == "ordered"
ConstraintComplex == "complex"
ConstraintFloat == "float"
ConstraintInteger == "integer"
ConstraintSigned == "signed"
ConstraintUnsigned == "unsigned"

KindOf(h, t) == IF t = Nil THEN "nil" ELSE h[t].kind

RECURSIVE TypesEqual(_, _, _)

MethodsEqual(h, m1, m2) ==
  IF m1.name # m2.name \/ m1.isPointer # m2.isPointer THEN FALSE
  ELSE IF Len(m1.params) # Len(m2.params) \/ Len(m1.results) # Len(m2.results) THEN FALSE
  ELSE /\ \A i \in 1..Len(m1.params) : TypesEqual(h, m1.params[i], m2.params[i])
       /\ \A i \in 1..Len(m1.results) : TypesEqual(h, m1.results[i], m2.results[i])

TypesEqual(h, t1, t2) ==
  IF t1 = Nil \/ t2 = Nil THEN t1 = t2
  ELSE
  LET n1 == h[t1]
      n2 == h[t2]
      same == n1.kind = n2.kind
  IN
  CASE n1.kind = "Const" -> same /\ n1.name = n2.name
    [] n1.kind = "Var" -> same /\ n1.name = n2.name
    [] n1.kind = "Func" ->
         /\ same
         /\ Len(n1.params) = Len(n2.params)
         /\ n1.isVariadic = n2.isVariadic
         /\ \A i \in 1..Len(n1.params) : TypesEqual(h, n1.params[i], n2.params[i])
         /\ TypesEqual(h, n1.ret, n2.ret)
    [] n1.kind = "Tuple" ->
         /\ same
         /\ Len(n1.types) = Len(n2.types)
         /\ \A i \in 1..Len(n1.types) : TypesEqual(h, n1.types[i], n2.types[i])
    [] n1.kind = "Generic" ->
         /\ same
         /\ n1.name = n2.name
         /\ Len(n1.typeParams) = Len(n2.typeParams)
         /\ \A i \in 1..Len(n1.typeParams) :
              TypesEqual(h, n1.typeParams[i], n2.typeParams[i])
    [] n1.kind = "Slice" -> same /\ TypesEqual(h, n1.elem, n2.elem)
    [] n1.kind = "Array" -> same /\ n1.len = n2.len /\ TypesEqual(h, n1.elem, n2.elem)
    [] n1.kind = "Iface" ->
         /\ same
         /\ \/ n1.isEmpty /\ n2.isEmpty
            \/ \A i \in 1..Len(EntriesOf(h, n1.methods)) :
                 HasKeyIn(h, n2.methods, EntriesOf(h, n1.methods)[i].key)
    [] n1.kind = "Struct" ->
         /\ same
         /\ n1.name = n2.name
         /\ Len(EntriesOf(h, n1.fields)) = Len(EntriesOf(h, n2.fields))
         /\ Len(EntriesOf(h, n1.methods)) = Len(EntriesOf(h, n2.methods))
         /\ \A i \in 1..Len(EntriesOf(h, n1.fields)) :
              LET e == EntriesOf(h, n1.fields)[i] IN
              /\ HasKeyIn(h, n2.fields, e.key)
              /\ TypesEqual(h, e.val, LookupIn(h, n2.fields, e.key))
         /\ \A i \in 1..Len(EntriesOf(h, n1.methods)) :
              LET e == EntriesOf(h, n1.methods)[i] IN
              /\ HasKeyIn(h, n2.methods, e.key)
              /\ MethodsEqual(h, e.val, LookupIn(h, n2.methods, e.key))
    [] n1.kind = "Map" ->
         same /\ TypesEqual(h, n1.keyT, n2.keyT) /\ TypesEqual(h, n1.valT, n2.valT)
    [] n1.kind = "Ptr" -> same /\ TypesEqual(h, n1.base, n2.base)
    [] n1.kind = "Alias" ->
         same /\ n1.name = n2.name /\ TypesEqual(h, n1.target, n2.target)
    [] OTHER -> FALSE

signedIntegers == {TypeInt, TypeInt8, TypeInt16, TypeInt32, TypeInt64}

unsignedIntegers == {TypeUint, TypeUint8, TypeUint16, TypeUint32, TypeUint64, TypeUintptr}

floats == {TypeFloat32, TypeFloat64}

complexes == {TypeComplex64, TypeComplex128}

orderedTypes == {TypeString}

IsConst(h, t) == KindOf(h, t) = "Const"

isOrdered(h, t) ==
  IsConst(h, t) /\ h[t].name \in signedIntegers \cup unsignedIntegers \cup floats \cup orderedTypes

isComplex(h, t) == IsConst(h, t) /\ h[t].name \in complexes

isFloat(h, t) == IsConst(h, t) /\ h[t].name \in floats

isInteger(h, t) == IsConst(h, t) /\ h[t].name \in signedIntegers \cup unsignedIntegers

isSigned(h, t) == IsConst(h, t) /\ h[t].name \in signedIntegers

isUnsigned(h, t) == IsConst(h, t) /\ h[t].name \in unsignedIntegers

isNumeric(h, t) == isInteger(h, t) \/ isFloat(h, t) \/ isComplex(h, t)

RECURSIVE isComparable(_, _)

\* a variant of isComparable that does not look at the fields of a struct
isComparableShallow(h, t) ==
  LET k == KindOf(h, t) IN
  CASE k = "Const" -> h[t].name = TypeBool \/ isNumeric(h, t) \/ h[t].name = TypeString
    [] k \in {"Ptr", "Iface", "Struct"} -> TRUE
    [] k = "Array" -> isComparable(h, h[t].elem)
    [] OTHER -> FALSE

isComparable(h, t) ==
  LET k == KindOf(h, t) IN
  CASE k = "Const" -> h[t].name = TypeBool \/ isNumeric(h, t) \/ h[t].name = TypeString
    [] k = "Ptr" -> TRUE
    [] k = "Iface" -> TRUE
    [] k = "Struct" ->
         \A i \in 1..Len(EntriesOf(h, h[t].fields)) :
           isComparable(h, EntriesOf(h, h[t].fields)[i].val)
    [] k = "Array" -> isComparable(h, h[t].elem)
    [] OTHER -> FALSE

\* a variant of checkBuiltinConstraint that takes integer as signed
checkBuiltinConstraintSigned(h, t, constraint) ==
  CASE constraint = ConstraintAny -> TRUE
    [] constraint = ConstraintComparable -> isComparable(h, t)
    [] constraint = ConstraintOrdered -> isOrdered(h, t)
    [] constraint = ConstraintComplex -> isComplex(h, t)
    [] constraint = ConstraintFloat -> isFloat(h, t)
    [] constraint \in {ConstraintInteger, ConstraintSigned} -> isSigned(h, t)
    [] constraint = ConstraintUnsigned -> isUnsigned(h, t)
    [] OTHER -> FALSE

checkBuiltinConstraint(h, t, constraint) ==
  CASE constraint = ConstraintAny -> TRUE
    [] constraint = ConstraintComparable -> isComparable(h, t)
    [] constraint = ConstraintOrdered -> isOrdered(h, t)
    [] constraint = ConstraintComplex -> isComplex(h, t)
    [] constraint = ConstraintFloat -> isFloat(h, t)
    [] constraint = ConstraintInteger -> isInteger(h, t)
    [] constraint = ConstraintSigned -> isSigned(h, t)
    [] constraint = ConstraintUnsigned -> isUnsigned(h, t)
    [] OTHER -> FALSE

\* the loop that follows the aliases of t
RECURSIVE unalias(_, _)
unalias(h, t) == IF KindOf(h, t) = "Alias" THEN unalias(h, h[t].target) ELSE t

RECURSIVE isUnderlyingType(_, _, _)
isUnderlyingType(h, t0, u) ==
  LET t == unalias(h, t0)
      k == KindOf(h, t)
      same == KindOf(h, u) = k
  IN
  CASE k = "Const" -> same /\ h[t].name = h[u].name
    [] k = "Slice" -> same /\ isUnderlyingType(h, h[t].elem, h[u].elem)
    [] k = "Map" ->
         /\ same
         /\ isUnderlyingType(h, h[t].keyT, h[u].keyT)
         /\ isUnderlyingType(h, h[t].valT, h[u].valT)
    [] k = "Struct" ->
         /\ same
         /\ Len(EntriesOf(h, h[t].fields)) = Len(EntriesOf(h, h[u].fields))
         /\ \A i \in 1..Len(EntriesOf(h, h[t].fields)) :
              LET e == EntriesOf(h, h[t].fields)[i] IN
              /\ HasKeyIn(h, h[u].fields, e.key)
              /\ isUnderlyingType(h, e.val, LookupIn(h, h[u].fields, e.key))
    [] k = "Func" ->
         /\ same
         /\ Len(h[t].params) = Len(h[u].params)
         /\ \A i \in 1..Len(h[t].params) :
              isUnderlyingType(h, h[t].params[i], h[u].params[i])
         /\ isUnderlyingType(h, h[t].ret, h[u].ret)
    [] OTHER -> FALSE

\* the interfaces each primitive type is taken to implement
primitiveInterfaces(tName) ==
  CASE tName = TypeInt -> {"Stringer", "Printable", "Comparable"}
    [] tName = TypeString -> {"Printable", "Comparable"}
    [] tName = TypeFloat64 -> {"Stringer", "Printable", "Comparable"}
    [] OTHER -> {}

checkPrimitiveTypeInterface(tName, iface) == iface.name \in primitiveInterfaces(tName)

\* the types that hold a method set: structs and interfaces
IsMethodHolder(h, t) == KindOf(h, t) \in {"Struct", "Iface"}

GetMethods(h, t) == h[t].methods

typeContainsAllMethods(h, t, iface) ==
  \A i \in 1..Len(EntriesOf(h, iface.methods)) :
    HasKeyIn(h, GetMethods(h, t), EntriesOf(h, iface.methods)[i].key)

\* a variant of implInterface that asks a method holder for one of the methods
implInterfaceSomeMethod(h, t, iface) ==
  LET k == KindOf(h, t) IN
  CASE k = "Const" -> checkPrimitiveTypeInterface(h[t].name, iface)
    [] k = "Generic" -> TRUE
    [] k = "Func" -> FALSE
    [] IsMethodHolder(h, t) ->
         \/ Len(EntriesOf(h, iface.methods)) = 0
         \/ \E i \in 1..Len(EntriesOf(h, iface.methods)) :
              HasKeyIn(h, GetMethods(h, t), EntriesOf(h, iface.methods)[i].key)
    [] OTHER -> FALSE

implInterface(h, t, iface) ==
  LET k == KindOf(h, t) IN
  CASE k = "Const" -> checkPrimitiveTypeInterface(h[t].name, iface)
    [] k = "Generic" -> TRUE
    [] k = "Func" -> FALSE
    [] IsMethodHolder(h, t) -> typeContainsAllMethods(h, t, iface)
    [] OTHER -> FALSE

RECURSIVE checkConstraint(_, _, _)

\* a variant of checkConstraint that asks for one of the interfaces only
checkConstraintSomeInterface(h, t, constraint) ==
  IF KindOf(h, t) = "Var" THEN TRUE
  ELSE IF constraint.builtinConstraint # ""
  THEN checkBuiltinConstraint(h, t, constraint.builtinConstraint)
  ELSE IF KindOf(h, t) = "Ptr"
  THEN IF \E i \in 1..Len(constraint.types) :
            /\ KindOf(h, constraint.types[i]) = "Ptr"
            /\ TypesEqual(h, h[t].base, h[constraint.types[i]].base)
       THEN TRUE
       ELSE checkConstraint(h, h[t].base, constraint)
  ELSE IF /\ Len(constraint.interfaces) > 0
          /\ \A i \in 1..Len(constraint.interfaces) :
               ~implInterface(h, t, constraint.interfaces[i])
  THEN FALSE
  ELSE IF Len(constraint.types) > 0
  THEN \E i \in 1..Len(constraint.types) :
         IF constraint.isUnderlying
         THEN isUnderlyingType(h, t, constraint.types[i])
         ELSE TypesEqual(h, t, constraint.types[i])
  ELSE TRUE

\* a variant of checkConstraint that looks at the builtin constraint before it
\* looks for a type variable
checkConstraintBuiltinFirst(h, t, constraint) ==
  IF constraint.builtinConstraint # ""
  THEN checkBuiltinConstraint(h, t, constraint.builtinConstraint)
  ELSE IF KindOf(h, t) = "Var" THEN TRUE
  ELSE IF KindOf(h, t) = "Ptr"
  THEN IF \E i \in 1..Len(constraint.types) :
            /\ KindOf(h, constraint.types[i]) = "Ptr"
            /\ TypesEqual(h, h[t].base, h[constraint.types[i]].base)
       THEN TRUE
       ELSE checkConstraint(h, h[t].base, constraint)
  ELSE IF \E i \in 1..Len(constraint.interfaces) : ~implInterface(h, t, constraint.interfaces[i])
  THEN FALSE
  ELSE IF Len(constraint.types) > 0
  THEN \E i \in 1..Len(constraint.types) :
         IF constraint.isUnderlying
         THEN isUnderlyingType(h, t, constraint.types[i])
         ELSE TypesEqual(h, t, constraint.types[i])
  ELSE TRUE

\* a variant of checkConstraint without the case of the pointers
checkConstraintNoPointer(h, t, constraint) ==
  IF KindOf(h, t) = "Var" THEN TRUE
  ELSE IF constraint.builtinConstraint # ""
  THEN checkBuiltinConstraint(h, t, constraint.builtinConstraint)
  ELSE IF \E i \in 1..Len(constraint.interfaces) : ~implInterface(h, t, constraint.interfaces[i])
  THEN FALSE
  ELSE IF Len(constraint.types) > 0
  THEN \E i \in 1..Len(constraint.types) :
         IF constraint.isUnderlying
         THEN isUnderlyingType(h, t, constraint.types[i])
         ELSE TypesEqual(h, t, constraint.types[i])
  ELSE TRUE

checkConstraint(h, t, constraint) ==
  IF KindOf(h, t) = "Var" THEN TRUE
  ELSE IF constraint.builtinConstraint # ""
  THEN checkBuiltinConstraint(h, t, constraint.builtinConstraint)
  ELSE IF KindOf(h, t) = "Ptr"
  THEN IF \E i \in 1..Len(constraint.types) :
            /\ KindOf(h, constraint.types[i]) = "Ptr"
            /\ TypesEqual(h, h[t].base, h[constraint.types[i]].base)
       THEN TRUE
       ELSE checkConstraint(h, h[t].base, constraint)
  ELSE IF \E i \in 1..Len(constraint.interfaces) : ~implInterface(h, t, constraint.interfaces[i])
  THEN FALSE
  ELSE IF Len(constraint.types) > 0
  THEN \E i \in 1..Len(constraint.types) :
         IF constraint.isUnderlying
         THEN isUnderlyingType(h, t, constraint.types[i])
         ELSE TypesEqual(h, t, constraint.types[i])
  ELSE TRUE

\* ------------------------------------------------------------------------
\* infer.go
\* ------------------------------------------------------------------------

\* a type argument of InstantiateGenericType: an ast.Expr (here an identifier),
\* a Type, or a value that is neither
ArgExpr(n) == [kind |-> "expr", name |-> n, t |-> Nil]
ArgType(t) == [kind |-> "type", name |-> "", t |-> t]
ArgOther == [kind |-> "other", name |-> "", t |-> Nil]

\* InferType of the identifier `name`
InferType(h, name, en) ==
  IF name \in DOMAIN en /\ en[name] # Nil
  THEN IF h[en[name]].kind = "Alias"
       THEN [t |-> h[en[name]].target, err |-> "nil"]
       ELSE [t |-> en[name], err |-> "nil"]
  ELSE [t |-> Nil, err |-> "unknown identifier"]

\* the result of a substitution: the type, the heap with the objects the call
\* has made, and the visited set of the TypeVisitor
SRes(t, h, vis) == [t |-> t, h |-> h, vis |-> vis]

\* a variant of substituteVar that takes the first argument for every variable
substituteVarAny(t, from, to, h, vis) ==
  IF Len(to) = 0 THEN SRes(t, h, vis) ELSE SRes(to[1], h, vis)

\* case *TypeVariable: the argument of the first parameter TypesEqual to t
substituteVar(t, from, to, h, vis) ==
  LET hit == {i \in 1..Len(from) : TypesEqual(h, t, from[i])} IN
  IF hit = {} THEN SRes(t, h, vis)
  ELSE SRes(to[CHOOSE i \in hit : \A j \in hit : i <= j], h, vis)

\* the types substituteTypeParams goes into from t, in the order it does:
\* the type parameters and the fields of a GenericType (ranged over in the
\* order o), the element of a slice, the key and the value of a map, the
\* parameters and the result of a function
children(h, t, o) ==
  LET k == KindOf(h, t)
      fs == RangeOf(h, h[t].fields, o)
  IN
  CASE k = "Generic" -> h[t].typeParams \o [i \in 1..Len(fs) |-> fs[i].val]
    [] k = "Slice" -> <<h[t].elem>>
    [] k = "Map" -> <<h[t].keyT, h[t].valT>>
    [] k = "Func" -> h[t].params \o <<h[t].ret>>
    [] OTHER -> <<>>

\* m[es[i].key] = vals[i], for every i
RECURSIVE putAll(_, _, _, _, _)
putAll(h, m, es, vals, i) ==
  IF i > Len(es) THEN h
  ELSE putAll(MapPut(h, m, es[i].key, vals[i]), m, es, vals, i + 1)

\* the type substituteTypeParams returns for t once r.ts holds what it got for
\* the children of t
rebuild(t, r, o) ==
  LET h == r.h
      k == KindOf(h, t)
      np == IF k = "Generic" THEN Len(h[t].typeParams) ELSE Len(r.ts) - 1
      first == SubSeq(r.ts, 1, np)
      rest == SubSeq(r.ts, np + 1, Len(r.ts))
      newFld == Alloc(h, GoMap(<<>>))
      filled == putAll(newFld.h, newFld.a, RangeOf(h, h[t].fields, o), rest, 1)
      made ==
        CASE k = "Generic" -> Alloc(filled, GenericType(h[t].name, first, Nil, h[t].fields, Nil))
          [] k = "Slice" -> Alloc(h, SliceType(r.ts[1]))
          [] k = "Map" -> Alloc(h, MapType(r.ts[1], r.ts[2]))
          [] k = "Func" -> Alloc(h, FunctionType(first, r.ts[np + 1], h[t].isVariadic))
  IN SRes(made.a, made.h, r.vis)

\* one more element of a slice is substituted
step(acc, r) == [ts |-> Append(acc.ts, r.t), h |-> r.h, vis |-> r.vis]

RECURSIVE substituteTypeParams(_, _, _, _, _, _),
          substituteTypeParamsInSlice(_, _, _, _, _, _)

\* result[i] = substituteTypeParams(t, from, to, visitor) for i, i + 1, ...,
\* after acc.ts; acc.h and acc.vis are the heap and the visitor so far
substituteTypeParamsInSlice(ts, i, from, to, acc, o) ==
  IF i > Len(ts) THEN acc
  ELSE substituteTypeParamsInSlice(ts, i + 1, from, to,
         step(acc, substituteTypeParams(ts[i], from, to, acc.h, acc.vis, o)), o)

substituteTypeParams(t, from, to, h, vis, o) ==
  IF t \in vis THEN SRes(t, h, vis)
  ELSE IF KindOf(h, t) = "Var" THEN substituteVar(t, from, to, h, vis \cup {t})
  ELSE IF KindOf(h, t) \in {"Generic", "Slice", "Map", "Func"}
  THEN rebuild(t, substituteTypeParamsInSlice(children(h, t, o), 1, from, to,
                    [ts |-> <<>>, h |-> h, vis |-> vis \cup {t}], o), o)
  ELSE SRes(t, h, vis \cup {t})

\* one more field is set
putField(m, k, r) == [h |-> MapPut(r.h, m, k, r.t), vis |-> r.vis]

\* for name, fieldType := range gt.Fields {
\*   instantiated.Fields[name] = substituteTypeParams(fieldType, ...) }
RECURSIVE substituteFields(_, _, _, _, _, _, _)
substituteFields(es, i, m, from, to, acc, o) ==
  IF i > Len(es) THEN acc
  ELSE substituteFields(es, i + 1, m, from, to,
         putField(m, es[i].key,
                  substituteTypeParams(es[i].val, from, to, acc.h, acc.vis, o)), o)

\* one more method is set: rs.ts holds its parameters, then its results
putMethod(m, k, method, rs) ==
  LET n == Len(method.params)
      im == Method(method.name, SubSeq(rs.ts, 1, n), SubSeq(rs.ts, n + 1, Len(rs.ts)),
                   method.isPointer)
  IN [h |-> MapPut(rs.h, m, k, im), vis |-> rs.vis]

\* for name, method := range gt.Methods { instantiated.Methods[name] = ... }
RECURSIVE substituteMethods(_, _, _, _, _, _, _)
substituteMethods(es, i, m, from, to, acc, o) ==
  IF i > Len(es) THEN acc
  ELSE substituteMethods(es, i + 1, m, from, to,
         putMethod(m, es[i].key, es[i].val,
                   substituteTypeParamsInSlice(es[i].val.params \o es[i].val.results, 1,
                     from, to, [ts |-> <<>>, h |-> acc.h, vis |-> acc.vis], o)), o)

\* a variant of the loop below that checks the constraint of an argument only
\* when the argument is an expression
RECURSIVE resolveTypeArgsExprOnly(_, _, _, _, _)
resolveTypeArgsExprOnly(h, gt, typeArgs, i, en) ==
  IF i > Len(typeArgs) THEN [err |-> "nil", ts |-> <<>>]
  ELSE
  LET arg == typeArgs[i]
      inf == IF arg.kind = "expr" THEN InferType(h, arg.name, en)
             ELSE [t |-> arg.t, err |-> "nil"]
      param == h[gt].typeParams[i]
  IN
  IF arg.kind = "other" THEN [err |-> "unsupported type argument", ts |-> <<>>]
  ELSE IF inf.err # "nil" THEN [err |-> inf.err, ts |-> <<>>]
  ELSE IF KindOf(h, param) # "Var" THEN [err |-> "panic", ts |-> <<>>]
  ELSE IF /\ arg.kind = "expr"
          /\ HasKeyIn(h, h[gt].constraints, h[param].name)
          /\ ~checkConstraint(h, inf.t, LookupIn(h, h[gt].constraints, h[param].name))
  THEN [err |-> "does not satisfy constraint", ts |-> <<>>]
  ELSE LET rest == resolveTypeArgsExprOnly(h, gt, typeArgs, i + 1, en) IN
       IF rest.err # "nil" THEN rest
       ELSE [err |-> "nil", ts |-> <<inf.t>> \o rest.ts]

\* the loop of InstantiateGenericType over typeArgs: the resolved arguments, or
\* the first error
RECURSIVE resolveTypeArgs(_, _, _, _, _)
resolveTypeArgs(h, gt, typeArgs, i, en) ==
  IF i > Len(typeArgs) THEN [err |-> "nil", ts |-> <<>>]
  ELSE
  LET arg == typeArgs[i]
      inf == IF arg.kind = "expr" THEN InferType(h, arg.name, en)
             ELSE [t |-> arg.t, err |-> "nil"]
      param == h[gt].typeParams[i]
  IN
  IF arg.kind = "other" THEN [err |-> "unsupported type argument", ts |-> <<>>]
  ELSE IF inf.err # "nil" THEN [err |-> inf.err, ts |-> <<>>]
  ELSE IF KindOf(h, param) # "Var" THEN [err |-> "panic", ts |-> <<>>]
  ELSE IF /\ HasKeyIn(h, h[gt].constraints, h[param].name)
          /\ ~checkConstraint(h, inf.t, LookupIn(h, h[gt].constraints, h[param].name))
  THEN [err |-> "does not satisfy constraint", ts |-> <<>>]
  ELSE LET rest == resolveTypeArgs(h, gt, typeArgs, i + 1, en) IN
       IF rest.err # "nil" THEN rest
       ELSE [err |-> "nil", ts |-> <<inf.t>> \o rest.ts]

\* a variant of newFields that takes the map of the definition: Fields: gt.Fields
sharedFields(h, gt) == [h |-> h, a |-> h[gt].fields]

\* Fields: make(map[string]Type)
newFields(h, gt) == Alloc(h, GoMap(<<>>))

IRes(t, err, h) == [t |-> t, err |-> err, h |-> h]

\* instantiated := &GenericType{...}: the new value and its two new maps
newInstantiated(h, gt, ts) ==
  LET f == newFields(h, gt)
      m == Alloc(f.h, GoMap(<<>>))
      g == Alloc(m.h, GenericType(h[gt].name, ts, Nil, f.a, m.a))
  IN [g |-> g.a, f |-> f.a, m |-> m.a, h |-> g.h]

\* the loop over gt.Methods, after the loop over gt.Fields has left fs
fillMethods(gt, ts, new, fs, om, o) ==
  IRes(new.g, "nil",
       substituteMethods(RangeOf(fs.h, fs.h[gt].methods, om), 1, new.m,
                         fs.h[gt].typeParams, ts, fs, o).h)

\* the loop over gt.Fields with a new visitor, then the loop over gt.Methods
\* with the same visitor
fillFields(gt, ts, new, of, om) ==
  fillMethods(gt, ts, new,
              substituteFields(RangeOf(new.h, new.h[gt].fields, of), 1, new.f,
                               new.h[gt].typeParams, ts, [h |-> new.h, vis |-> {}], of),
              om, of)

\* InstantiateGenericType once the loop over typeArgs has left ra
instantiateResolved(h, gt, ra, of, om) ==
  IF ra.err # "nil" THEN IRes(Nil, ra.err, h)
  ELSE fillFields(gt, ra.ts, newInstantiated(h, gt, ra.ts), of, om)

\* of, om: the orders of the ranges over gt.Fields and gt.Methods
InstantiateGenericType(h, gt, typeArgs, en, of, om) ==
  IF Len(h[gt].typeParams) # Len(typeArgs) THEN IRes(Nil, "wrong number of type arguments", h)
  ELSE instantiateResolved(h, gt, resolveTypeArgs(h, gt, typeArgs, 1, en), of, om)

\* ------------------------------------------------------------------------
\* infer.go: InferType on the nodes of the syntax tree.  A node is a record of
\* its kind, its name (an identifier, or the kind of a literal), whether the
\* value of a literal has a ".", the number of its Lhs, and its
\* sub-expressions.  The sub-expressions are identifiers, literals and calls
\* of identifiers; the context is its ExpectedType (the flags of the context
\* are not read by the cases here).
\* ------------------------------------------------------------------------

Ident(n) == [kind |-> "Ident", name |-> n, dot |-> FALSE, lhs |-> 0, sub |-> <<>>]
BasicLit(k, d) == [kind |-> "BasicLit", name |-> k, dot |-> d, lhs |-> 0, sub |-> <<>>]
\* Fun(Args...)
CallExpr(f, args) ==
  [kind |-> "CallExpr", name |-> "", dot |-> FALSE, lhs |-> 0, sub |-> <<f>> \o args]
\* []Elt{Elts...}
SliceLit(elt, elts) ==
  [kind |-> "CompositeLit", name |-> "", dot |-> FALSE, lhs |-> 0, sub |-> <<elt>> \o elts]
\* Type{Elts...} with an identifier as Type, and Key: Value
StructLit(n, elts) ==
  [kind |-> "StructLit", name |-> n, dot |-> FALSE, lhs |-> 0, sub |-> elts]
KeyValueExpr(k, v) ==
  [kind |-> "KeyValueExpr", name |-> k, dot |-> FALSE, lhs |-> 0, sub |-> <<v>>]
ReturnStmt(results) ==
  [kind |-> "ReturnStmt", name |-> "", dot |-> FALSE, lhs |-> 0, sub |-> results]
AssignStmt(l, r) ==
  [kind |-> "AssignStmt", name |-> "", dot |-> FALSE, lhs |-> Len(l), sub |-> l \o r]
\* X[Index]
IndexExpr(x, index) ==
  [kind |-> "IndexExpr", name |-> "", dot |-> FALSE, lhs |-> 0, sub |-> <<x, index>>]
\* X[Indices...]
IndexListExpr(x, indices) ==
  [kind |-> "IndexListExpr", name |-> "", dot |-> FALSE, lhs |-> 0, sub |-> <<x>> \o indices]

\* the result of InferType: the type and the error, the argument or result the
\* error is about and the error of Unify it wraps, and the environment and the
\* heap the call leaves
XRes(t, en, h) ==
  [t |-> t, err |-> "nil", arg |-> 0, cause |-> "nil", env |-> en, h |-> h]
XErr(err, arg, cause, en, h) ==
  [t |-> Nil, err |-> err, arg |-> arg, cause |-> cause, env |-> en, h |-> h]

\* a call that does not return
Fatal(err) == err \in {"panic", "diverge"}

\* case *ast.Ident
inferIdent(e, h, en) ==
  LET r == InferType(h, e.name, en) IN
  IF r.err = "nil" THEN XRes(r.t, en, h) ELSE XErr(r.err, 0, "nil", en, h)

\* case *ast.BasicLit; the constant made for a literal is taken from the catalog
inferBasicLit(e, h, en) ==
  CASE e.name = "INT" -> XRes(A("litInt"), en, h)
    [] e.name = "FLOAT" -> XRes(IF e.dot THEN A("litFloat64") ELSE A("litFloat32"), en, h)
    [] e.name = "STRING" -> XRes(A("litString"), en, h)
    [] e.name = "CHAR" -> XRes(A("litRune"), en, h)
    [] OTHER -> XErr("unknown basic literal kind", 0, "nil", en, h)

\* the error made of the error of Unify, in each of the loops
mismatch(mode) ==
  CASE mode = "args" -> "argument type mismatch for arg"
    [] mode = "elts" -> "inconsistent element types in slice literal"
    [] mode = "results" -> "return type mismatch for result"
    [] mode = "assign" -> "assignment type mismatch"
    [] mode = "return" -> "return type mismatch"

\* if err := Unify(...); err != nil { return nil, fmt.Errorf(...) }
unified(mode, i, t, u, h) ==
  IF u.err = "nil" THEN XRes(t, u.env, h)
  ELSE IF Fatal(u.err) THEN XErr(u.err, i, u.err, u.env, h)
  ELSE XErr(mismatch(mode), i, IF mode = "elts" THEN "nil" ELSE u.err, u.env, h)

\* the body of the loops over the arguments of a call, the elements of a slice
\* literal and the results of a return statement, once es[i] is inferred as r:
\* an error of the inference ends the loop, but checkReturnType returns nil
\* for it; then Unify(want, r.t, env)
afterInfer(mode, i, want, r, o) ==
  IF r.err # "nil" /\ (mode # "results" \/ Fatal(r.err)) THEN r
  ELSE IF r.err # "nil" THEN XRes(Nil, r.env, r.h)
  ELSE unified(mode, i - 1, Nil, Unify(want, r.t, r.env, o), r.h)

RECURSIVE inferTypeInternal(_, _, _, _, _), inferEach(_, _, _, _, _, _),
          inferAssign(_, _, _, _, _), structFields(_, _, _, _, _, _)

\* for i, e := range es: InferType(e, env, ctx with ExpectedType wants[i]) and
\* Unify(wants[i], its type, env), until the first error
inferEach(mode, es, wants, i, acc, o) ==
  IF i > Len(es) \/ acc.err # "nil" THEN acc
  ELSE inferEach(mode, es, wants, i + 1,
         afterInfer(mode, i, wants[i],
                    inferTypeInternal(es[i], acc.h, acc.env, wants[i], o), o), o)

\* resultType := ft.ReturnType, unified with ctx.ExpectedType when there is one
callResult(ft, a, ctx, o) ==
  IF a.err # "nil" THEN a
  ELSE IF ctx = Nil THEN XRes(a.h[ft].ret, a.env, a.h)
  ELSE unified("return", 0, a.h[ft].ret, Unify(a.h[ft].ret, ctx, a.env, o), a.h)

inferFunctionCall(funcTyp, args, h, en, ctx, o) ==
  IF KindOf(h, funcTyp) # "Func" THEN XErr("not a function", 0, "nil", en, h)
  ELSE IF Len(args) # Len(h[funcTyp].params)
  THEN XErr("wrong number of arguments", 0, "nil", en, h)
  ELSE callResult(funcTyp,
                  inferEach("args", args, h[funcTyp].params, 1, XRes(Nil, en, h), o),
                  ctx, o)

\* case *ast.CallExpr, the callee not a selector, once the callee is inferred
calledWith(e, f, ctx, o) ==
  IF f.err # "nil" THEN f
  ELSE inferFunctionCall(f.t, Tail(e.sub), f.h, f.env, ctx, o)

\* return &SliceType{ElementType: et}, nil, nil
sliceOf(et, a) ==
  IF a.err # "nil" THEN a
  ELSE XRes(Alloc(a.h, SliceType(et)).a, a.env, Alloc(a.h, SliceType(et)).h)

\* case *ast.CompositeLit with an *ast.ArrayType of no Len, once the element
\* type is inferred
sliceWith(e, et, o) ==
  IF et.err # "nil" THEN et
  ELSE sliceOf(et.t, inferEach("elts", Tail(e.sub), [i \in 1..(Len(e.sub) - 1) |-> et.t],
                               1, XRes(Nil, et.env, et.h), o))

\* case *ast.ReturnStmt
inferReturn(e, h, en, ctx, o) ==
  IF ctx = Nil THEN XErr("return statement outside of function context", 0, "nil", en, h)
  ELSE IF KindOf(h, ctx) # "Func"
  THEN XErr("expected function type in return context", 0, "nil", en, h)
  ELSE LET expectedType == IF KindOf(h, h[ctx].ret) = "Tuple"
                           THEN h[h[ctx].ret].types ELSE <<h[ctx].ret>>
       IN IF Len(e.sub) # Len(expectedType)
          THEN XErr("wrong number of return values", 0, "nil", en, h)
          ELSE inferEach("results", e.sub, expectedType, 1, XRes(Nil, en, h), o)

\* a variant of assigned that does not unify the Rhs with the Lhs
assignedUnchecked(i, expected, r, o) ==
  IF r.err # "nil" THEN r ELSE XRes(Nil, r.env, r.h)

\* the body of the loop of case *ast.AssignStmt once the Rhs is inferred as r;
\* expected is the type of the Lhs, nil when there is none
assigned(i, expected, r, o) ==
  IF r.err # "nil" THEN r
  ELSE IF expected = Nil THEN XRes(Nil, r.env, r.h)
  ELSE unified("assign", i - 1, Nil, Unify(expected, r.t, r.env, o), r.h)

\* expected, _ = InferType(expr.Lhs[i], ...): l is its result; then the Rhs
assignRhs(e, i, l, ctx, o) ==
  IF Fatal(l.err) THEN l
  ELSE assigned(i, l.t, inferTypeInternal(e.sub[e.lhs + i], l.h, l.env, ctx, o), o)

inferAssign(e, i, acc, ctx, o) ==
  IF e.lhs + i > Len(e.sub) \/ acc.err # "nil" THEN acc
  ELSE inferAssign(e, i + 1,
         assignRhs(e, i,
                   IF i <= e.lhs THEN inferTypeInternal(e.sub[i], acc.h, acc.env, ctx, o)
                   ELSE XRes(Nil, acc.env, acc.h),
                   ctx, o),
         ctx, o)

\* the type arguments case *ast.IndexExpr and case *ast.IndexListExpr make
indexArgs(e, gt, h) ==
  IF e.kind = "IndexExpr"
  THEN [i \in 1..Len(h[gt].typeParams) |-> ArgExpr(e.sub[2].name)]
  ELSE [i \in 1..(Len(e.sub) - 1) |-> ArgExpr(e.sub[i + 1].name)]

\* instant, err := InstantiateGenericType(...); return instant, err, nil
instantiated(r, en) ==
  IF r.err = "nil" THEN XRes(r.t, en, r.h) ELSE XErr(r.err, 0, "nil", en, r.h)

\* case *ast.IndexExpr, case *ast.IndexListExpr, once the base is inferred
indexWith(e, b, o) ==
  IF b.err # "nil" THEN b
  ELSE IF KindOf(b.h, b.t) # "Generic" THEN XErr("not a generic type", 0, "nil", b.env, b.h)
  ELSE IF e.kind = "IndexListExpr" /\ Len(e.sub) - 1 # Len(b.h[b.t].typeParams)
  THEN XErr("wrong number of type parameters", 0, "nil", b.env, b.h)
  ELSE instantiated(
         InstantiateGenericType(b.h, b.t, indexArgs(e, b.t, b.h), b.env, o, o), b.env)

\* the struct literal once its element i, of key k and of a field of type
\* fieldType, has its value inferred as r: the value is compared with
\* TypesEqual and put in the fields of the new struct ns
fieldValued(ns, k, fieldType, r) ==
  IF r.err # "nil" THEN r
  ELSE IF ~TypesEqual(r.h, fieldType, r.t)
  THEN XErr("type mismatch for field", 0, "nil", r.env, r.h)
  ELSE XRes(ns, r.env, MapPut(r.h, r.h[ns].fields, k, r.t))

\* for _, elt := range expr.Elts, of a literal of the struct type st
structFields(e, st, ns, i, acc, o) ==
  IF i > Len(e.sub) \/ acc.err # "nil" THEN acc
  ELSE IF e.sub[i].kind # "KeyValueExpr"
  THEN XErr("invalid struct literal", 0, "nil", acc.env, acc.h)
  ELSE IF ~HasKeyIn(acc.h, acc.h[st].fields, e.sub[i].name)
  THEN XErr("unknown field", 0, "nil", acc.env, acc.h)
  ELSE structFields(e, st, ns, i + 1,
         fieldValued(ns, e.sub[i].name, LookupIn(acc.h, acc.h[st].fields, e.sub[i].name),
                     inferTypeInternal(e.sub[i].sub[1], acc.h, acc.env,
                                       LookupIn(acc.h, acc.h[st].fields, e.sub[i].name), o)),
         o)

\* newStruct := &StructType{Name: structType.Name, Fields: make(map[string]Type)}
newStruct(e, st, fields, en, o) ==
  structFields(e, st, Len(fields.h) + 1, 1,
               XRes(Len(fields.h) + 1, en,
                    Append(fields.h, StructType(fields.h[st].name, fields.a, Nil))),
               o)

\* case *ast.CompositeLit with an *ast.Ident as Type
inferStructLit(e, h, en, o) ==
  IF ~(e.name \in DOMAIN en /\ KindOf(h, en[e.name]) = "Struct")
  THEN XErr("unknown struct type", 0, "nil", en, h)
  ELSE newStruct(e, en[e.name], Alloc(h, GoMap(<<>>)), en, o)

\* InferType(node, env, ctx): ctx is ctx.ExpectedType
inferTypeInternal(e, h, en, ctx, o) ==
  CASE e.kind = "Ident" -> inferIdent(e, h, en)
    [] e.kind = "BasicLit" -> inferBasicLit(e, h, en)
    [] e.kind = "CallExpr" ->
         calledWith(e, inferTypeInternal(e.sub[1], h, en, ctx, o), ctx, o)
    [] e.kind = "CompositeLit" ->
         sliceWith(e, inferTypeInternal(e.sub[1], h, en, ctx, o), o)
    [] e.kind = "StructLit" -> inferStructLit(e, h, en, o)
    [] e.kind = "ReturnStmt" -> inferReturn(e, h, en, ctx, o)
    [] e.kind = "AssignStmt" -> inferAssign(e, 1, XRes(Nil, en, h), ctx, o)
    [] e.kind \in {"IndexExpr", "IndexListExpr"} ->
         indexWith(e, inferTypeInternal(e.sub[1], h, en, ctx, o), o)
    [] OTHER -> XErr("unknown expression", 0, "nil", en, h)

\* ------------------------------------------------------------------------
\* The program: calls of Unify on one environment, one after the other.
\* ------------------------------------------------------------------------

NBound(en) == Cardinality({n \in Names : Bound(en, n)})

Running == last.err \notin {"diverge", "panic"}

\* no call of InstantiateGenericType has been made, or its result was dropped
NoInst == [gt |-> Nil, args |-> <<>>, of |-> <<>>, om |-> <<>>, ret |-> Nil]

Init ==
  /\ heap = Catalog
  /\ env = EmptyEnv
  /\ last = [op |-> "none", err |-> "nil"]
  /\ inst = NoInst

CallUnify(t1, t2, o) ==
  /\ Running
  /\ LET r == Unify(t1, t2, env, o) IN
     /\ env' = r.env
     /\ last' = [op |-> "Unify", err |-> r.err]
  /\ UNCHANGED <<heap, inst>>

Next == \E t1 \in Types, t2 \in Types, o \in Orders : CallUnify(t1, t2, o)

Spec == Init /\ [][Next]_vars

\* ------------------------------------------------------------------------
\* The program: calls of InstantiateGenericType on the generic definitions,
\* in an environment that declares the types int, string and MyInt.
\* ------------------------------------------------------------------------

Templates ==
  {A("gBox"), A("gShare"), A("gPair"), A("gOuter"), A("gNum"), A("gBoxInt")}

TypeArgs ==
  {ArgType(A(l)) : l \in {"cInt", "cString", "sInt", "pInt", "alMyInt", "tvU", "stS"}}
    \cup {ArgExpr(n) : n \in {"int", "MyInt", "nope"}}
    \cup {ArgOther}

MaxArgs == 2

ArgLists == UNION {[1..n -> TypeArgs] : n \in 0..MaxArgs}

DeclEnv ==
  [n \in Names |->
     CASE n = "int" -> A("cInt")
       [] n = "string" -> A("cString")
       [] n = "MyInt" -> A("alMyInt")
       [] OTHER -> Nil]

InitInst ==
  /\ heap = Catalog
  /\ env = DeclEnv
  /\ last = [op |-> "none", err |-> "nil"]
  /\ inst = NoInst

\* the caller holds the result of one call at a time
CallInstantiate(gt, typeArgs, of, om) ==
  /\ Running
  /\ inst = NoInst
  /\ LET r == InstantiateGenericType(heap, gt, typeArgs, env, of, om) IN
     /\ heap' = r.h
     /\ last' = [op |-> "InstantiateGenericType", err |-> r.err]
     /\ inst' = [gt |-> gt, args |-> typeArgs, of |-> of, om |-> om, ret |-> r.t]
  /\ UNCHANGED env

\* the caller drops the result; the objects the call has made are collected
Drop ==
  /\ Running
  /\ inst # NoInst
  /\ heap' = SubSeq(heap, 1, Len(Catalog))
  /\ last' = [op |-> "Drop", err |-> "nil"]
  /\ inst' = NoInst
  /\ UNCHANGED env

NextInst ==
  \/ /\ inst = NoInst
     /\ \E gt \in Templates, typeArgs \in ArgLists, of \in Orders, om \in Orders :
          CallInstantiate(gt, typeArgs, of, om)
  \/ Drop

SpecInst == InitInst /\ [][NextInst]_vars

\* ------------------------------------------------------------------------
\* The program: calls of substituteTypeParams with a new visitor on the type
\* values, and calls of InstantiateGenericType on the two definitions of Tree.
\* ------------------------------------------------------------------------

\* the types substituted into
SubstTypes ==
  Types \cup {A(l) : l \in {"sInt", "gBox", "gShare", "pSlice", "pMap", "pFn", "gPair",
                             "gInner", "gOuter", "gNum", "ttL", "gTreeT", "gTree"}}

\* the type parameters substituted for: a variable T and a variable K
SubstFrom == {A("tvT2"), A("pK")}

\* the type arguments put in their place
SubstTo == {A("cInt"), A("cString"), A("sInt")}

MaxParams == 2

\* from and to, of one length
SubstPairs ==
  UNION {[1..n -> SubstFrom] \X [1..n -> SubstTo] : n \in 0..MaxParams}

\* the orders of a range over the fields of Tree
FieldOrders == Perms(Len(Catalog[A("gTree.Fields")].entries))

Trees == {A("gTree"), A("gTreeT")}

CallSubstitute(t, from, to, o) ==
  /\ Running
  /\ inst = NoInst
  /\ LET r == substituteTypeParams(t, from, to, heap, {}, o) IN
     /\ heap' = r.h
     /\ last' = [op |-> "substituteTypeParams", err |-> "nil"]
     /\ inst' = [t |-> t, from |-> from, to |-> to, o |-> o, ret |-> r.t]
  /\ UNCHANGED env

NextSubst ==
  \/ /\ inst = NoInst
     /\ \E t \in SubstTypes, p \in SubstPairs, o \in FieldOrders :
          CallSubstitute(t, p[1], p[2], o)
  \/ /\ inst = NoInst
     /\ \E gt \in Trees, a \in TypeArgs, o \in FieldOrders :
          CallInstantiate(gt, <<a>>, o, o)
  \/ Drop

SpecSubst == InitInst /\ [][NextSubst]_vars

\* ------------------------------------------------------------------------
\* The program: calls of checkConstraint on the type values and on
\* constraints made of interfaces, allowed types, the two flags and the names
\* of the builtin constraints.
\* ------------------------------------------------------------------------

ConstraintTypes ==
  Types \cup {A(l) : l \in {"sInt", "gBox", "cBool", "cFloat64", "cFoo", "pT", "ppInt",
                             "pS", "stBad", "aSlice", "stR", "sMyInt", "alId"}}

\* the lists of interfaces of a constraint
InterfaceLists ==
  { <<>>,
    <<Interface("Stringer", Nil)>>,
    <<Interface("Printable", Nil), Interface("Stringer", Nil)>>,
    <<Interface("R", A("iRead.Methods"))>>,
    <<Interface("Stringer", Nil), Interface("RC", A("iReadClose.Methods"))>> }

\* the types a constraint allows
AllowedTypes ==
  {A("cInt"), A("cString"), A("pInt"), A("alMyInt"), A("fT_str"), A("sInt"), A("aInt")}

MaxAllowed == 2

AllowedLists == UNION {[1..n -> AllowedTypes] : n \in 0..MaxAllowed}

BuiltinNames ==
  {ConstraintAny, ConstraintComparable, ConstraintOrdered, ConstraintComplex,
   ConstraintFloat, ConstraintInteger, ConstraintSigned, ConstraintUnsigned, "bogus"}

Constraints ==
  {TypeConstraint(is, ts, u, FALSE, und, "") :
     is \in InterfaceLists, ts \in AllowedLists, u \in BOOLEAN, und \in BOOLEAN}
  \cup
  {TypeConstraint(is, ts, FALSE, FALSE, FALSE, b) :
     is \in {<<>>, <<Interface("R", A("iRead.Methods"))>>},
     ts \in {<<>>, <<A("cString")>>}, b \in BuiltinNames}

CallCheckConstraint(t, c) ==
  /\ Running
  /\ inst = NoInst
  /\ last' = [op |-> "checkConstraint", err |-> "nil"]
  /\ inst' = [t |-> t, c |-> c, ret |-> checkConstraint(heap, t, c)]
  /\ UNCHANGED <<heap, env>>

\* the types the builtin constraints are checked on: the constants of every
\* primitive name and of another name, and a type of every other variant
BuiltinTypes ==
  {A(BuiltinLabels[i]) : i \in 1..Len(BuiltinLabels)}
    \cup {A(l) : l \in {"cInt", "cString", "cBool", "cFloat64", "cFoo", "pInt", "sInt", "aInt",
                         "aSlice", "stS", "stBad", "iRead", "iTop", "alMyInt", "fT_str",
                         "tIntStr", "mStrT", "gBox", "tvT"}}

\* the constraints with a builtin name, the other fields set and not set
BuiltinConstraints ==
  {TypeConstraint(is, ts, u, FALSE, und, b) :
     is \in {<<>>, <<Interface("R", A("iRead.Methods"))>>},
     ts \in {<<>>, <<A("cString")>>}, u \in BOOLEAN, und \in BOOLEAN, b \in BuiltinNames}

\* the type arguments of Pair, whose K is comparable
PairArgs == {ArgType(A("cString")), ArgType(A("cInt")), ArgType(A("sInt"))}

NextConstraint ==
  \/ /\ inst = NoInst
     /\ \E t \in ConstraintTypes, c \in Constraints : CallCheckConstraint(t, c)
  \/ /\ inst = NoInst
     /\ \E t \in BuiltinTypes, c \in BuiltinConstraints : CallCheckConstraint(t, c)
  \/ /\ inst = NoInst
     /\ \E k \in PairArgs, v \in PairArgs, o \in Orders :
          CallInstantiate(A("gPair"), <<k, v>>, o, o)
  \/ Drop

SpecConstraint == InitInst /\ [][NextConstraint]_vars

\* ------------------------------------------------------------------------
\* The program: calls of InferType on expressions and statements, in an
\* environment that declares types, variables and functions.
\* ------------------------------------------------------------------------

InferEnv ==
  [n \in Names |->
     CASE n = "int" -> A("cInt")
       [] n = "string" -> A("cString")
       [] n = "MyInt" -> A("alMyInt")
       [] n = "x" -> A("cInt")
       [] n = "s" -> A("cString")
       [] n = "f" -> A("fnIntStr")
       [] n = "r" -> A("fnRead")
       [] n = "p" -> A("fnPairT")
       [] n = "Pair" -> A("gPair")
       [] n = "Box" -> A("gBox")
       [] n = "R" -> A("iRead")
       [] n = "z" -> A("tvT3")
       [] n = "P" -> A("stP")
       [] n = "S" -> A("stS")
       [] OTHER -> Nil]

InitInfer ==
  /\ heap = Catalog
  /\ env = InferEnv
  /\ last = [op |-> "none", err |-> "nil"]
  /\ inst = NoInst

\* the longest list of arguments, elements, results, sides and indices
MaxElts == 2

Literals ==
  {BasicLit("INT", FALSE), BasicLit("STRING", FALSE), BasicLit("FLOAT", TRUE),
   BasicLit("FLOAT", FALSE), BasicLit("CHAR", FALSE), BasicLit("IMAG", FALSE)}

Operands ==
  {Ident("x"), Ident("s"), Ident("z"), Ident("nope"), BasicLit("INT", FALSE),
   BasicLit("STRING", FALSE),
   CallExpr(Ident("f"), <<Ident("x")>>), CallExpr(Ident("f"), <<Ident("s")>>)}

OperandLists == UNION {[1..n -> Operands] : n \in 0..MaxElts}

Callees == {Ident(n) : n \in {"f", "r", "p", "x", "nope"}}

TypeExprs == {Ident(n) : n \in {"int", "string", "R", "nope"}}

TypeExprLists == UNION {[1..n -> TypeExprs] : n \in 0..MaxElts}

Targets == {Ident(n) : n \in {"x", "z", "nope"}}

Bases == {Ident(n) : n \in {"Pair", "Box", "x", "nope"}}

Calls == {CallExpr(f, args) : f \in Callees, args \in OperandLists}

SliceLits == {SliceLit(elt, elts) : elt \in TypeExprs, elts \in OperandLists}

Returns == {ReturnStmt(results) : results \in OperandLists}

Assigns ==
  UNION {{AssignStmt(l, r) : l \in [1..n -> Targets], r \in [1..n -> Operands]} :
           n \in 1..MaxElts}

Indexes ==
  {IndexExpr(x, i) : x \in Bases, i \in TypeExprs}
    \cup {IndexListExpr(x, is) : x \in Bases, is \in TypeExprLists}

\* the elements of struct literals: a value for a field of each kind and for
\* a field there is not, a struct literal for the field that is a struct,
\* and an element that is no Key: Value
KeyValues ==
  {KeyValueExpr(k, v) : k \in {"x", "items", "v", "n"},
                        v \in {Ident("x"), Ident("s"), Ident("nope")}}
    \cup {KeyValueExpr("inner", StructLit("S", <<KeyValueExpr("x", v)>>)) :
            v \in {BasicLit("INT", FALSE), Ident("s")}}
    \cup {Ident("x")}

KeyValueLists == UNION {[1..n -> KeyValues] : n \in 0..MaxElts}

StructLits == {StructLit(n, elts) : n \in {"P", "S", "x", "nope"}, elts \in KeyValueLists}

\* the ExpectedType of the context: none, a type, the type of the function a
\* return statement is in
Expected == {Nil, A("cInt"), A("cString"), A("fnIntStr"), A("fnIntTuple")}

\* the caller holds the result of one call at a time
CallInferType(e, ctx, o) ==
  /\ Running
  /\ inst = NoInst
  /\ LET r == inferTypeInternal(e, heap, env, ctx, o) IN
     /\ heap' = r.h
     /\ env' = r.env
     /\ last' = [op |-> "InferType", err |-> r.err]
     /\ inst' = [e |-> e, ctx |-> ctx, o |-> o, ret |-> r.t, arg |-> r.arg,
                 cause |-> r.cause]

NextInfer ==
  \/ /\ inst = NoInst
     /\ \E e \in Literals \cup Operands \cup Calls \cup SliceLits \cup Returns
                   \cup Assigns \cup Indexes,
           ctx \in Expected, o \in Orders :
          CallInferType(e, ctx, o)
  \/ /\ inst = NoInst
     /\ \E e \in StructLits, o \in Orders : CallInferType(e, Nil, o)
  \/ Drop

SpecInfer == InitInfer /\ [][NextInfer]_vars

\* ------------------------------------------------------------------------
\* Properties of Unify
\* ------------------------------------------------------------------------

Vars == {t \in Types : heap[t].kind = "Var"}
Consts == {t \in Types : heap[t].kind = "Const"}
Funcs == {t \in Types : heap[t].kind = "Func"}
Tops == {t \in Types : heap[t].kind = "Iface" /\ heap[t].isEmpty}

\* C1: Unify is reflexive: for every type a of any variant and every
\* environment, Unify(a, a, env) returns no error and leaves env as it was.
C1_UnifyReflexive ==
  \A a \in Types, o \in Orders : Unify(a, a, env, o) = Res("nil", env)

\* C2: Unify is symmetric in outcome: if Unify(a, b) succeeds from an empty
\* environment, Unify(b, a) from a fresh empty environment succeeds too.
C2_UnifySymmetric ==
  \A a \in Types, b \in Types, o \in Orders :
    Unify(a, b, EmptyEnv, o).err = "nil" => Unify(b, a, EmptyEnv, o).err = "nil"

\* C3: an Interface marked as empty unifies with every type, in both argument
\* orders and in every environment.
C3_TopUnifiesWithAnything ==
  \A top \in Tops, t \in Types, o \in Orders :
    /\ Unify(top, t, env, o).err = "nil"
    /\ Unify(t, top, env, o).err = "nil"

\* C4: occurs check: when the variable named by an unbound v occurs in a
\* parameter or in the return type of a Function f, directly or through the
\* variables bound in env, Unify(v, f, env) fails with CircularReference and
\* binds nothing.
C4_OccursCheck ==
  LET RECURSIVE OccursIn(_, _, _)
      OccursIn(n, t, seen) ==
        IF t \in seen THEN FALSE
        ELSE CASE heap[t].kind = "Var" ->
                    \/ heap[t].name = n
                    \/ /\ Bound(env, heap[t].name)
                       /\ OccursIn(n, env[heap[t].name], seen \cup {t})
               [] heap[t].kind = "Func" ->
                    \/ \E i \in 1..Len(heap[t].params) :
                         OccursIn(n, heap[t].params[i], seen \cup {t})
                    \/ OccursIn(n, heap[t].ret, seen \cup {t})
               [] OTHER -> FALSE
  IN \A v \in Vars, f \in Funcs, o \in Orders :
       (~Bound(env, heap[v].name) /\ OccursIn(heap[v].name, f, {}))
         => Unify(v, f, env, o) = Res("CircularReference", env)

\* C5: two Function types whose isVariadic flags differ fail to unify with
\* TypeMismatch; with equal flags and different parameter counts they fail
\* with ArityMismatch; either way before any parameter is unified, so that
\* env is left as it was.
C5_ArityBeforeStructure ==
  \A f1 \in Funcs, f2 \in Funcs, o \in Orders :
    LET r == Unify(f1, f2, env, o) IN
    /\ heap[f1].isVariadic # heap[f2].isVariadic => r = Res("TypeMismatch", env)
    /\ (heap[f1].isVariadic = heap[f2].isVariadic
        /\ Len(heap[f1].params) # Len(heap[f2].params)) => r = Res("ArityMismatch", env)

\* C5 as stated: different parameter counts or different isVariadic flags
\* give ArityMismatch, never TypeMismatch, and no binding.
C5_ArityMismatchOnly ==
  \A f1 \in Funcs, f2 \in Funcs, o \in Orders :
    (\/ heap[f1].isVariadic # heap[f2].isVariadic
     \/ Len(heap[f1].params) # Len(heap[f2].params))
      => Unify(f1, f2, env, o) = Res("ArityMismatch", env)

\* a call has just failed on the parameter counts, in an environment where
\* the parameters of two functions of different counts could have been bound
C5_Witness ==
  /\ last = [op |-> "Unify", err |-> "ArityMismatch"]
  /\ env["T"] = Nil
  /\ env["U"] # Nil
  /\ \A o \in Orders :
       Unify(A("fT_str"), A("fIntStr_int"), env, o) = Res("ArityMismatch", env)

\* C6: a call of Unify never overwrites or removes a binding: every name
\* bound before the call is bound to the same type after it, whether the call
\* succeeds or fails.
C6_BindingsKept ==
  [][\A n \in Names : env[n] # Nil => env'[n] = env[n]]_vars

\* a call has failed after an earlier one bound T, and T is bound as before
C6_Witness ==
  /\ env["T"] = A("cInt")
  /\ env["U"] # Nil
  /\ last = [op |-> "Unify", err |-> "TypeMismatch"]

\* C7: Unify(v, c, env) with v unbound and c a Constant succeeds and binds v
\* to c; from then on Unify(v, c2, env) with c2 a Constant succeeds iff c2 has
\* the name of c, fails with TypeMismatch otherwise, and leaves env as it is.
C7_BindThenReunify ==
  \A v \in Vars, c \in Consts, o \in Orders :
    LET n == heap[v].name
        r == Unify(v, c, env, o)
    IN
    /\ ~Bound(env, n) =>
         /\ r = Res("nil", bind(env, v, c))
         /\ \A c2 \in Consts :
              Unify(v, c2, r.env, o) =
                Res(IF heap[c2].name = heap[c].name THEN "nil" ELSE "TypeMismatch", r.env)
    /\ env[n] = c =>
         \A c2 \in Consts :
           Unify(v, c2, env, o) =
             Res(IF heap[c2].name = heap[c].name THEN "nil" ELSE "TypeMismatch", env)

\* T is bound to the constant int, a call has just failed with TypeMismatch,
\* and unifying T with another object of the same name succeeds
C7_Witness ==
  /\ env["T"] = A("cInt")
  /\ env["U"] = Nil
  /\ last = [op |-> "Unify", err |-> "TypeMismatch"]
  /\ \A o \in Orders : Unify(A("tvT"), A("cInt2"), env, o) = Res("nil", env)

\* ------------------------------------------------------------------------
\* Properties of InstantiateGenericType
\* ------------------------------------------------------------------------

Called == last.op = "InstantiateGenericType"

\* the i-th argument of the call as a type: what the identifier is declared
\* as, or the type that was passed
ArgResolves(i) ==
  \/ inst.args[i].kind = "type"
  \/ inst.args[i].kind = "expr" /\ InferType(heap, inst.args[i].name, env).err = "nil"

ResolvedArg(i) ==
  IF inst.args[i].kind = "expr" THEN InferType(heap, inst.args[i].name, env).t
  ELSE inst.args[i].t

\* the i-th argument does not satisfy the constraint declared for the i-th
\* type parameter
ArgFails(i) ==
  LET g == heap[inst.gt]
      p == heap[g.typeParams[i]].name
  IN /\ ArgResolves(i)
     /\ HasKeyIn(heap, g.constraints, p)
     /\ ~checkConstraint(heap, ResolvedArg(i), LookupIn(heap, g.constraints, p))

\* C8: InstantiateGenericType returns an error and no type when the number of
\* arguments is not the number of type parameters, or when an argument does
\* not satisfy the constraint declared for its parameter; it returns a type
\* only when every argument resolves and satisfies its constraint.  Box[T: int]
\* fails with string and succeeds with int.
C8_ConstraintGated ==
  Called =>
    LET n == Len(inst.args)
        np == Len(heap[inst.gt].typeParams)
    IN
    /\ (last.err = "nil") <=> (inst.ret # Nil)
    /\ n # np => last.err # "nil"
    /\ (n = np /\ \E i \in 1..n : ArgFails(i)) => last.err # "nil"
    /\ last.err = "nil" => (n = np /\ \A i \in 1..n : ArgResolves(i) /\ ~ArgFails(i))
    /\ (inst.gt = A("gBox") /\ inst.args = <<ArgType(A("cString"))>>) => last.err # "nil"
    /\ (inst.gt = A("gBox") /\ inst.args = <<ArgType(A("cInt"))>>) => last.err = "nil"

\* Pair[K comparable, V] has just been refused a slice for K: the count of the
\* arguments is right and both resolve
C8_Witness ==
  /\ Called
  /\ inst.gt = A("gPair")
  /\ inst.args = <<ArgType(A("sInt")), ArgExpr("int")>>
  /\ last.err = "does not satisfy constraint"
  /\ inst.ret = Nil

\* C9: a successful InstantiateGenericType returns a Generic of the same name
\* whose typeParams are the resolved arguments and whose field and method
\* types are the template's with every type parameter replaced by its
\* argument, at every Variable, Slice, Map, Function and Generic position
\* (the fields of a Generic-typed field included), also when positions share
\* a type node.
C9_EverySubstituted ==
  (Called /\ last.err = "nil") =>
    LET g == heap[inst.gt]
        r == heap[inst.ret]
        Param(n) == {i \in 1..Len(g.typeParams) : heap[g.typeParams[i]].name = n}
        RECURSIVE Tree(_), Want(_), TreeFields(_, _), WantFields(_, _)
        \* the type at t, as a value
        Tree(t) ==
          LET k == KindOf(heap, t) IN
          CASE k = "Var" -> <<"Var", heap[t].name>>
            [] k = "Const" -> <<"Const", heap[t].name>>
            [] k = "Slice" -> <<"Slice", Tree(heap[t].elem)>>
            [] k = "Map" -> <<"Map", Tree(heap[t].keyT), Tree(heap[t].valT)>>
            [] k = "Func" ->
                 <<"Func", [i \in 1..Len(heap[t].params) |-> Tree(heap[t].params[i])],
                   Tree(heap[t].ret), heap[t].isVariadic>>
            [] k = "Generic" ->
                 <<"Generic", heap[t].name,
                   [i \in 1..Len(heap[t].typeParams) |-> Tree(heap[t].typeParams[i])],
                   TreeFields(EntriesOf(heap, heap[t].fields), 1)>>
            [] OTHER -> <<"at", t>>
        TreeFields(es, i) ==
          IF i > Len(es) THEN <<>>
          ELSE <<<<es[i].key, Tree(es[i].val)>>>> \o TreeFields(es, i + 1)
        \* the type at t with the arguments in the place of the parameters
        Want(t) ==
          LET k == KindOf(heap, t) IN
          CASE k = "Var" ->
                 IF Param(heap[t].name) = {} THEN Tree(t)
                 ELSE Tree(r.typeParams[CHOOSE i \in Param(heap[t].name) :
                                          \A j \in Param(heap[t].name) : i <= j])
            [] k = "Slice" -> <<"Slice", Want(heap[t].elem)>>
            [] k = "Map" -> <<"Map", Want(heap[t].keyT), Want(heap[t].valT)>>
            [] k = "Func" ->
                 <<"Func", [i \in 1..Len(heap[t].params) |-> Want(heap[t].params[i])],
                   Want(heap[t].ret), heap[t].isVariadic>>
            [] k = "Generic" ->
                 <<"Generic", heap[t].name,
                   [i \in 1..Len(heap[t].typeParams) |-> Want(heap[t].typeParams[i])],
                   WantFields(EntriesOf(heap, heap[t].fields), 1)>>
            [] OTHER -> Tree(t)
        WantFields(es, i) ==
          IF i > Len(es) THEN <<>>
          ELSE <<<<es[i].key, Want(es[i].val)>>>> \o WantFields(es, i + 1)
    IN
    /\ r.kind = "Generic"
    /\ r.name = g.name
    /\ r.typeParams = [i \in 1..Len(inst.args) |-> ResolvedArg(i)]
    /\ TreeFields(EntriesOf(heap, r.fields), 1) = WantFields(EntriesOf(heap, g.fields), 1)
    /\ Len(EntriesOf(heap, r.methods)) = Len(EntriesOf(heap, g.methods))
    /\ \A i \in 1..Len(EntriesOf(heap, g.methods)) :
         LET m == EntriesOf(heap, g.methods)[i].val
             rm == EntriesOf(heap, r.methods)[i].val
         IN /\ rm.name = m.name
            /\ rm.isPointer = m.isPointer
            /\ [j \in 1..Len(rm.params) |-> Tree(rm.params[j])]
                 = [j \in 1..Len(m.params) |-> Want(m.params[j])]
            /\ [j \in 1..Len(rm.results) |-> Tree(rm.results[j])]
                 = [j \in 1..Len(m.results) |-> Want(m.results[j])]

Substituted == last.op = "substituteTypeParams"

\* the types a type value holds
parts(h, t) ==
  LET n == h[t]
      k == n.kind
      elems(ts) == {ts[i] : i \in 1..Len(ts)}
      vals(m) == {EntriesOf(h, m)[i].val : i \in 1..Len(EntriesOf(h, m))}
      ofMethods(m) ==
        UNION {elems(EntriesOf(h, m)[i].val.params) \cup elems(EntriesOf(h, m)[i].val.results) :
                 i \in 1..Len(EntriesOf(h, m))}
  IN
  CASE k = "Func" -> elems(n.params) \cup {n.ret}
    [] k = "Tuple" -> elems(n.types)
    [] k = "Ptr" -> {n.base}
    [] k \in {"Slice", "Array"} -> {n.elem}
    [] k = "Map" -> {n.keyT, n.valT}
    [] k = "Struct" -> vals(n.fields) \cup ofMethods(n.methods)
    [] k = "Iface" -> ofMethods(n.methods) \cup elems(n.embedded)
    [] k = "Generic" -> elems(n.typeParams) \cup vals(n.fields) \cup ofMethods(n.methods)
    [] k = "Alias" -> {n.target}
    [] OTHER -> {}

\* the types reached from the types of S
RECURSIVE partsOf(_, _)
partsOf(h, S) ==
  LET more == S \cup UNION {parts(h, x) : x \in S \ {Nil}} IN
  IF more = S THEN S ELSE partsOf(h, more)

\* the indexes of the parameters of from that have the name of the variable v
namedBy(h, v, from) ==
  {i \in 1..Len(from) : KindOf(h, from[i]) = "Var" /\ h[from[i]].name = h[v].name}

\* t holds a variable with the name of a parameter of from
holdsParam(h, t, from) ==
  \E x \in partsOf(h, {t}) \ {Nil} : KindOf(h, x) = "Var" /\ namedBy(h, x, from) # {}

isTreeOfInt(h, t) ==
  /\ KindOf(h, t) = "Generic"
  /\ h[t].name = "Tree"
  /\ Len(h[t].typeParams) = 1
  /\ TypesEqual(h, h[t].typeParams[1], A("cInt"))

\* C12: substitution ends on every type graph, a Generic whose fields are the
\* Generic itself included, and InstantiateGenericType of Tree<T>{value: T,
\* left: Tree<T>, right: Tree<T>} with int returns Tree<int>{value: int,
\* left: Tree<int>, right: Tree<int>}.
C12_TreeOfInt ==
  (/\ last.op = "InstantiateGenericType"
   /\ inst.gt \in Trees
   /\ inst.args \in {<<ArgType(A("cInt"))>>, <<ArgExpr("int")>>})
  => /\ last.err = "nil"
     /\ isTreeOfInt(heap, inst.ret)
     /\ HasKeyIn(heap, heap[inst.ret].fields, "value")
     /\ TypesEqual(heap, LookupIn(heap, heap[inst.ret].fields, "value"), A("cInt"))
     /\ isTreeOfInt(heap, LookupIn(heap, heap[inst.ret].fields, "left"))
     /\ isTreeOfInt(heap, LookupIn(heap, heap[inst.ret].fields, "right"))

\* ------------------------------------------------------------------------
\* Properties of checkConstraint
\* ------------------------------------------------------------------------

Checked == last.op = "checkConstraint"

\* t implements every interface of c
implementsAll(h, t, c) ==
  \A i \in 1..Len(c.interfaces) : implInterface(h, t, c.interfaces[i])

C14_VariableSatisfies ==
  (Checked /\ KindOf(heap, inst.t) = "Var") => inst.ret

\* a variable satisfies the builtin constraint integer with an interface and
\* an allowed type
C14_Witness ==
  /\ Checked
  /\ inst.t = A("tvT")
  /\ inst.c.builtinConstraint = ConstraintInteger
  /\ inst.c.interfaces # <<>>
  /\ inst.c.types # <<>>
  /\ inst.ret

\* C15: for a pointer t and c with no builtin constraint, checkConstraint(t, c)
\* holds when c allows a pointer whose base is TypesEqual to the base of t, and
\* is checkConstraint(base of t, c) otherwise.
C15_PointerRule ==
  (Checked /\ KindOf(heap, inst.t) = "Ptr" /\ inst.c.builtinConstraint = "")
  => inst.ret =
       IF \E i \in 1..Len(inst.c.types) :
            /\ KindOf(heap, inst.c.types[i]) = "Ptr"
            /\ TypesEqual(heap, heap[inst.t].base, heap[inst.c.types[i]].base)
       THEN TRUE
       ELSE checkConstraint(heap, heap[inst.t].base, inst.c)

\* *int satisfies a constraint that allows int and string only, as int does
C15_Witness ==
  /\ Checked
  /\ inst.t = A("pInt")
  /\ inst.c.builtinConstraint = ""
  /\ inst.c.types = <<A("cInt"), A("cString")>>
  /\ ~inst.c.isUnderlying
  /\ inst.ret

\* the types the claim C16 calls comparable
RECURSIVE comparableType(_, _)
comparableType(h, t) ==
  LET k == KindOf(h, t) IN
  CASE k = "Const" ->
         h[t].name \in {"bool", "string", "int", "int8", "int16", "int32", "int64",
                        "uint", "uint8", "uint16", "uint32", "uint64", "uintptr",
                        "float32", "float64", "complex64", "complex128"}
    [] k \in {"Ptr", "Iface"} -> TRUE
    [] k = "Struct" ->
         \A i \in 1..Len(EntriesOf(h, h[t].fields)) :
           comparableType(h, EntriesOf(h, h[t].fields)[i].val)
    [] k = "Array" -> comparableType(h, h[t].elem)
    [] OTHER -> FALSE

\* C16: the builtin constraint comparable holds of the bool, numeric and string
\* constants, of every pointer and interface, of a struct whose fields are all
\* comparable and of an array of a comparable type, and of no other type; so
\* Pair<K: comparable, V> is instantiated with K = string and rejected with
\* K = []int.
C16_Comparable ==
  /\ \A t \in ConstraintTypes : isComparable(heap, t) = comparableType(heap, t)
  /\ (/\ Checked
      /\ inst.c.builtinConstraint = ConstraintComparable
      /\ KindOf(heap, inst.t) # "Var")
     => inst.ret = comparableType(heap, inst.t)
  /\ (last.op = "InstantiateGenericType" /\ inst.gt = A("gPair"))
     => /\ inst.args[1] = ArgType(A("cString")) => last.err = "nil"
        /\ inst.args[1] = ArgType(A("sInt")) => last.err = "does not satisfy constraint"

\* a struct with a field of type []int is not comparable
C16_Witness ==
  /\ Checked
  /\ inst.t = A("stBad")
  /\ inst.c.builtinConstraint = ConstraintComparable
  /\ ~inst.ret

\* ------------------------------------------------------------------------
\* Properties of InferType
\* ------------------------------------------------------------------------

\* the call of InferType a step makes is on a node of kind k
Infers(k) == last'.op = "InferType" /\ inst'.e.kind = k

\* the environment once the arguments 1..k of a call of the function ft have
\* been inferred and unified with its parameters
RECURSIVE argEnv(_, _, _, _)
argEnv(ft, args, k, o) ==
  IF k = 0 THEN env
  ELSE Unify(heap[ft].params[k],
             inferTypeInternal(args[k], heap, argEnv(ft, args, k - 1, o),
                               heap[ft].params[k], o).t,
             argEnv(ft, args, k - 1, o), o).env

\* the inference of argument k of the call, and its unification with
\* parameter k
argInfer(ft, args, k, o) ==
  inferTypeInternal(args[k], heap, argEnv(ft, args, k - 1, o), heap[ft].params[k], o)
argUnify(ft, args, k, o) ==
  Unify(heap[ft].params[k], argInfer(ft, args, k, o).t, argEnv(ft, args, k - 1, o), o)
argGood(ft, args, k, o) ==
  argInfer(ft, args, k, o).err = "nil" /\ argUnify(ft, args, k, o).err = "nil"

\* what the claim says of a call of the function type ft on args
callRule(ft, args, ctx, o) ==
  IF KindOf(heap, ft) # "Func"
  THEN last'.err = "not a function" /\ inst'.ret = Nil
  ELSE IF Len(args) # Len(heap[ft].params)
  THEN last'.err # "nil" /\ inst'.ret = Nil
  ELSE IF \E k \in 1..Len(args) : ~argGood(ft, args, k, o)
  THEN LET k == CHOOSE k \in 1..Len(args) :
                  ~argGood(ft, args, k, o) /\ \A j \in 1..(k - 1) : argGood(ft, args, j, o)
       IN argInfer(ft, args, k, o).err = "nil" =>
            /\ last'.err = "argument type mismatch for arg"
            /\ inst'.arg = k - 1
            /\ inst'.cause = argUnify(ft, args, k, o).err
            /\ inst'.ret = Nil
  ELSE IF ctx = Nil
            \/ Unify(heap[ft].ret, ctx, argEnv(ft, args, Len(args), o), o).err = "nil"
  THEN last'.err = "nil" /\ inst'.ret = heap[ft].ret
  ELSE last'.err = "return type mismatch" /\ inst'.ret = Nil

\* C17: a call whose callee is not a selector: a callee that is inferred as a
\* type that is no Function gives the NotAFunction error; arguments that are
\* not as many as the parameters give an error; a first argument whose
\* inferred type does not unify with its parameter gives "argument type
\* mismatch for arg N" wrapping the error of Unify; otherwise the result is the
\* ReturnType if there is no expected type or the ReturnType unifies with it,
\* and "return type mismatch" if it does not.
C17_CallRule ==
  [][Infers("CallExpr") =>
       LET e == inst'.e
           f == inferTypeInternal(e.sub[1], heap, env, inst'.ctx, inst'.o)
       IN f.err = "nil" => callRule(f.t, Tail(e.sub), inst'.ctx, inst'.o)]_vars

\* the inference of element k of a slice literal of element type et, and
\* whether its inferred type unifies with et
eltInfer(et, elts, k, o) == inferTypeInternal(elts[k], heap, env, et, o)
eltUnifies(et, elts, k, o) ==
  /\ eltInfer(et, elts, k, o).err = "nil"
  /\ Unify(et, eltInfer(et, elts, k, o).t, env, o).err = "nil"
eltMismatch(et, elts, k, o) ==
  /\ eltInfer(et, elts, k, o).err = "nil"
  /\ Unify(et, eltInfer(et, elts, k, o).t, env, o).err # "nil"

\* what the claim says of a slice literal of element type et
sliceRule(et, elts, o) ==
  /\ (\A k \in 1..Len(elts) : eltUnifies(et, elts, k, o))
       <=> /\ last'.err = "nil"
           /\ KindOf(heap', inst'.ret) = "Slice"
           /\ heap'[inst'.ret].elem = et
  /\ (\E k \in 1..Len(elts) : eltMismatch(et, elts, k, o))
       => /\ last'.err = "inconsistent element types in slice literal"
          /\ inst'.ret = Nil

\* C18: a slice literal of declared element type E is inferred as Slice(E) if
\* and only if the inferred type of every element unifies with E (so an empty
\* literal is Slice(E)); if an element does not unify with E the result is the
\* error "inconsistent element types in slice literal" and no type.
C18_SliceLiteral ==
  [][Infers("CompositeLit") =>
       LET e == inst'.e
           et == inferTypeInternal(e.sub[1], heap, env, inst'.ctx, inst'.o)
       IN et.err = "nil" => sliceRule(et.t, Tail(e.sub), inst'.o)]_vars

\* the expected types the nodes of SpecInfer hand to their sub-expressions
Contexts == Expected \cup {A("iRead"), A("tvT3")}

\* the inference of the expression s fails, whatever type is expected
inferFails(s, o) ==
  \A c \in Contexts : inferTypeInternal(s, heap, env, c, o).err # "nil"

\* the sub-expressions of a node that are no targets of an assignment
operands(e) == {e.sub[k] : k \in (e.lhs + 1)..Len(e.sub)}

\* C19: first error wins: when the inference of a sub-expression of the node
\* fails, and the sub-expression is no target of an assignment, InferType
\* returns an error and no type; so for every kind of node, a return statement
\* with a result that is an unknown identifier included.
C19_FirstErrorWins ==
  [][last'.op = "InferType" =>
       ((\E s \in operands(inst'.e) : inferFails(s, inst'.o))
          => last'.err # "nil" /\ inst'.ret = Nil)]_vars

\* the number of indices of an index expression
indexCount(e) == IF e.kind = "IndexExpr" THEN 1 ELSE Len(e.sub) - 1

\* what the claim says of base[i1..ik] with a base inferred as b
indexRule(b, k) ==
  IF KindOf(heap, b) # "Generic"
  THEN last'.err = "not a generic type" /\ inst'.ret = Nil
  ELSE k # Len(heap[b].typeParams) => last'.err # "nil" /\ inst'.ret = Nil

\* C20: InferType on base[i1..ik] returns NotAGenericType when the base is not
\* inferred as a Generic, and an error when k is not the number of type
\* parameters of the Generic, in the form with one index (k = 1) as in the
\* form with a list of indices: a Generic of two type parameters is not
\* instantiated from one index.
C20_IndexArity ==
  [][(Infers("IndexExpr") \/ Infers("IndexListExpr")) =>
       LET e == inst'.e
           b == inferTypeInternal(e.sub[1], heap, env, inst'.ctx, inst'.o)
       IN b.err = "nil" => indexRule(b.t, indexCount(e))]_vars

\* the statement is one assignment target = value
oneAssign(e) == e.kind = "AssignStmt" /\ e.lhs = 1 /\ Len(e.sub) = 2

\* the value of the assignment, or the argument k of the call, is inferred as
\* a constant
constOperand(e, k, ctx, o) ==
  LET r == inferTypeInternal(e.sub[k], heap, env, ctx, o) IN
  r.err = "nil" /\ KindOf(heap, r.t) = "Const"

\* the name of that constant
operandName(e, k, ctx, o) == heap[inferTypeInternal(e.sub[k], heap, env, ctx, o).t].name

\* env binds the variable T to a constant
boundToConst == env["T"] # Nil /\ KindOf(heap, env["T"]) = "Const"

\* the statement succeeds if b, and fails with the error err, made of the
\* TypeMismatch of Unify, if not
succeedsIff(b, err) ==
  IF b THEN last'.err = "nil" /\ env' = env
  ELSE last'.err = err /\ inst'.cause = "TypeMismatch" /\ env' = env

\* C21: bindings accumulate on one env: an assignment yields no type; an
\* assignment to z, of the unbound variable T, of a value inferred as the
\* constant c succeeds and binds env[T] to c; once T is bound to c, an
\* assignment to z and a call of p, whose parameters are of type T, succeed
\* when their values are constants named as c and fail with a type mismatch
\* when one is another constant; no call of InferType changes a binding.
C21_BindingsAccumulate ==
  [][last'.op = "InferType" =>
       LET e == inst'.e
           ctx == inst'.ctx
           o == inst'.o
       IN /\ e.kind = "AssignStmt" => inst'.ret = Nil
          /\ \A n \in Names : env[n] # Nil => env'[n] = env[n]
          /\ (oneAssign(e) /\ e.sub[1] = Ident("z") /\ constOperand(e, 2, ctx, o))
               => IF env["T"] = Nil
                  THEN /\ last'.err = "nil"
                       /\ env' = [env EXCEPT !["T"] =
                                    inferTypeInternal(e.sub[2], heap, env, ctx, o).t]
                  ELSE boundToConst
                         => succeedsIff(operandName(e, 2, ctx, o) = heap[env["T"]].name,
                                        "assignment type mismatch")
          /\ (/\ e.kind = "CallExpr" /\ e.sub[1] = Ident("p") /\ Len(e.sub) = 3
              /\ ctx = Nil /\ boundToConst
              /\ constOperand(e, 2, A("tvT3"), o) /\ constOperand(e, 3, A("tvT3"), o))
               => succeedsIff(/\ operandName(e, 2, A("tvT3"), o) = heap[env["T"]].name
                              /\ operandName(e, 3, A("tvT3"), o) = heap[env["T"]].name,
                              "argument type mismatch for arg")]_vars

\* z = "..." is refused once z = 1 has bound T to int
C21_Witness ==
  /\ last.op = "InferType"
  /\ inst.e = AssignStmt(<<Ident("z")>>, <<BasicLit("STRING", FALSE)>>)
  /\ env["T"] = A("litInt")
  /\ last.err = "assignment type mismatch"
  /\ inst.cause = "TypeMismatch"

\* ------------------------------------------------------------------------
\* Properties of isUnderlyingType
\* ------------------------------------------------------------------------

\* t and a have the same underlying type: the aliases followed on both sides,
\* at every position
RECURSIVE sameUnderlying(_, _, _)
sameUnderlying(h, t0, a0) ==
  LET t == unalias(h, t0)
      a == unalias(h, a0)
      k == KindOf(h, t)
  IN
  IF KindOf(h, a) # k THEN FALSE
  ELSE CASE k \in {"Slice", "Array"} ->
              /\ k = "Array" => h[t].len = h[a].len
              /\ sameUnderlying(h, h[t].elem, h[a].elem)
         [] k = "Ptr" -> sameUnderlying(h, h[t].base, h[a].base)
         [] k = "Map" ->
              /\ sameUnderlying(h, h[t].keyT, h[a].keyT)
              /\ sameUnderlying(h, h[t].valT, h[a].valT)
         [] k = "Tuple" ->
              /\ Len(h[t].types) = Len(h[a].types)
              /\ \A i \in 1..Len(h[t].types) : sameUnderlying(h, h[t].types[i], h[a].types[i])
         [] k = "Func" ->
              /\ Len(h[t].params) = Len(h[a].params)
              /\ \A i \in 1..Len(h[t].params) :
                   sameUnderlying(h, h[t].params[i], h[a].params[i])
              /\ sameUnderlying(h, h[t].ret, h[a].ret)
         [] k = "Struct" ->
              /\ Len(EntriesOf(h, h[t].fields)) = Len(EntriesOf(h, h[a].fields))
              /\ \A i \in 1..Len(EntriesOf(h, h[t].fields)) :
                   LET e == EntriesOf(h, h[t].fields)[i] IN
                   /\ HasKeyIn(h, h[a].fields, e.key)
                   /\ sameUnderlying(h, e.val, LookupIn(h, h[a].fields, e.key))
         [] OTHER -> TypesEqual(h, t, a)

\* the constraints and types the claim is about
underlyingCase ==
  /\ Checked
  /\ inst.c.isUnderlying /\ inst.c.builtinConstraint = ""
  /\ Len(inst.c.interfaces) = 0 /\ Len(inst.c.types) > 0
  /\ KindOf(heap, inst.t) \notin {"Var", "Ptr"}

\* C22: for a constraint with IsUnderlying set, no builtin name, no interfaces
\* and allowed types, and a type t that is no variable and no pointer,
\* checkConstraint is true if and only if an allowed type has the underlying
\* type of t, the aliases followed at every position of t and of the allowed
\* type; so a t that equals an allowed type satisfies the constraint.
C22_UnderlyingMatch ==
  underlyingCase =>
    /\ inst.ret = (\E i \in 1..Len(inst.c.types) :
                     sameUnderlying(heap, inst.t, inst.c.types[i]))
    /\ (\E i \in 1..Len(inst.c.types) : TypesEqual(heap, inst.t, inst.c.types[i]))
         => inst.ret

\* ------------------------------------------------------------------------
\* Properties of checkBuiltinConstraint
\* ------------------------------------------------------------------------

\* the table of the builtin predicates, as the claim gives it
namedIn(h, t, names) == KindOf(h, t) = "Const" /\ h[t].name \in names
signedNames == {"int", "int8", "int16", "int32", "int64"}
unsignedNames == {"uint", "uint8", "uint16", "uint32", "uint64", "uintptr"}
builtinTable(h, t, b) ==
  CASE b = "any" -> TRUE
    [] b = "comparable" -> comparableType(h, t)
    [] b = "signed" -> namedIn(h, t, signedNames)
    [] b = "unsigned" -> namedIn(h, t, unsignedNames)
    [] b = "integer" -> namedIn(h, t, signedNames) \/ namedIn(h, t, unsignedNames)
    [] b = "float" -> namedIn(h, t, {"float32", "float64"})
    [] b = "complex" -> namedIn(h, t, {"complex64", "complex128"})
    [] b = "ordered" ->
         namedIn(h, t, signedNames \cup unsignedNames \cup {"float32", "float64", "string"})
    [] OTHER -> FALSE

\* the constraint that has the builtin name b and nothing else
Builtin(b) == TypeConstraint(<<>>, <<>>, FALSE, FALSE, FALSE, b)

\* C23: when the constraint has a builtin name and t is no variable,
\* checkConstraint is the builtin predicate of that name alone, whatever the
\* other fields: any holds of every type, signed, unsigned, integer, float and
\* complex of the constants of their name sets, ordered of the integers, floats
\* and string, an unknown name of no type; signed and unsigned have no type in
\* common, and every ordered type is comparable.
C23_BuiltinTable ==
  (Checked /\ inst.c.builtinConstraint # "" /\ KindOf(heap, inst.t) # "Var")
  => /\ inst.ret = builtinTable(heap, inst.t, inst.c.builtinConstraint)
     /\ inst.ret = checkConstraint(heap, inst.t, Builtin(inst.c.builtinConstraint))
     /\ ~(/\ checkConstraint(heap, inst.t, Builtin("signed"))
          /\ checkConstraint(heap, inst.t, Builtin("unsigned")))
     /\ checkConstraint(heap, inst.t, Builtin("ordered"))
          => checkConstraint(heap, inst.t, Builtin("comparable"))

\* uintptr is an integer, though the constraint asks for a Reader and a string
C23_Witness ==
  /\ Checked
  /\ heap[inst.t] = TypeConstant("uintptr")
  /\ inst.c.builtinConstraint = "integer"
  /\ Len(inst.c.interfaces) > 0 /\ inst.c.types = <<A("cString")>>
  /\ inst.ret

\* ------------------------------------------------------------------------
\* Properties of Unify on interfaces
\* ------------------------------------------------------------------------

\* the interfaces that are not the top interface
NonTops ==
  {t \in Types : heap[t].kind = "Iface" /\ ~heap[t].isEmpty /\ ~isInterfaceAny(t)}
    \cup {A("iGetInt"), A("iGetStr")}

\* the signatures of two methods unify: the receiver kinds and the counts are
\* equal, the parameters unify and the results unify
signatureUnifies(m1, m2, o) ==
  /\ m1.isPointer = m2.isPointer
  /\ Len(m1.params) = Len(m2.params) /\ Len(m1.results) = Len(m2.results)
  /\ UnifySeq(m1.params, m2.params, 1, env, o, {}).err = "nil"
  /\ UnifySeq(m1.results, m2.results, 1,
              UnifySeq(m1.params, m2.params, 1, env, o, {}).env, o, {}).err = "nil"

\* what the claim asks of r for Unify(i, r, env) to succeed
interfaceRule(i, r, o) ==
  \/ r \in Tops \/ isInterfaceAny(r)
  \/ /\ heap[r].kind = "Iface" /\ heap[r].name = heap[i].name
     /\ \A k \in 1..Len(Entries(heap[i].methods)) :
          LET e == Entries(heap[i].methods)[k] IN
          /\ HasKey(heap[r].methods, e.key)
          /\ signatureUnifies(e.val, Lookup(heap[r].methods, e.key), o)
     /\ \A k \in 1..Len(heap[i].embedded) : Unify(heap[i].embedded[k], r, env, o).err = "nil"

\* C24: for an interface i that is not the top interface and a resolved type
\* r, Unify(i, r, env) succeeds if and only if r is the top interface, or an
\* interface of the same name in which every method of i has a method of its
\* name whose signature unifies, every embedded interface of i unifying with r;
\* in every other case, r being no interface included, Unify returns
\* TypeMismatch or ArityMismatch.
C24_InterfaceUnify ==
  \A i \in NonTops, r \in Types \cup NonTops, o \in Orders :
    resolve(r, env) = r
      => /\ (Unify(i, r, env, o).err = "nil") <=> interfaceRule(i, r, o)
         /\ Unify(i, r, env, o).err \in {"nil", "TypeMismatch", "ArityMismatch"}

\* ------------------------------------------------------------------------
\* Properties of occurs
\* ------------------------------------------------------------------------

\* the slice, the map and the generic of the catalog that hold the variable T
HoldersOfT == {A("sT"), A("mStrT"), A("gListT")}

methodNames(h, m) == {EntriesOf(h, m)[i].key : i \in 1..Len(EntriesOf(h, m))}

\* what the claim says of implInterface(t, iface)
implRule(h, t, iface) ==
  CASE KindOf(h, t) = "Func" -> FALSE
    [] KindOf(h, t) = "Const" ->
         \/ h[t].name \in {"int", "float64"}
              /\ iface.name \in {"Stringer", "Printable", "Comparable"}
         \/ h[t].name = "string" /\ iface.name \in {"Printable", "Comparable"}
    [] KindOf(h, t) \in {"Struct", "Iface"} ->
         methodNames(h, iface.methods) \subseteq methodNames(h, h[t].methods)

structBound(e) == e.name \in DOMAIN env /\ KindOf(heap, env[e.name]) = "Struct"

\* the element i of the literal is Key: Value with the key a field of the struct
fieldKnown(e, i) ==
  /\ e.sub[i].kind = "KeyValueExpr"
  /\ HasKeyIn(heap, heap[env[e.name]].fields, e.sub[i].name)

\* the value of the element i is an identifier of the environment
valueBound(e, i) ==
  /\ e.sub[i].sub[1].kind = "Ident"
  /\ e.sub[i].sub[1].name \in DOMAIN env

\* the type of the value of the element i unifies with the type of its field
valueUnifies(e, i, o) ==
  Unify(LookupIn(heap, heap[env[e.name]].fields, e.sub[i].name),
        env[e.sub[i].sub[1].name], env, o).err = "nil"

structRule(e, o) ==
  IF ~structBound(e) \/ \E i \in 1..Len(e.sub) : ~fieldKnown(e, i)
  THEN last'.err # "nil"
  ELSE (\A i \in 1..Len(e.sub) : valueBound(e, i)) =>
         /\ last'.err = "nil" <=> \A i \in 1..Len(e.sub) : valueUnifies(e, i, o)
         /\ last'.err = "nil" =>
              /\ KindOf(heap', inst'.ret) = "Struct"
              /\ heap'[inst'.ret].name = heap[env[e.name]].name

\* C27: a struct literal S{k: v, ...} fails if S is not bound to a struct or
\* if a key is no field of it; otherwise it succeeds exactly when the
\* inferred type of every value unifies with the declared type of its field,
\* and the result is a struct named S.
C27_StructLiteral == [][Infers("StructLit") => structRule(inst'.e, inst'.o)]_vars

\* ------------------------------------------------------------------------
\* Properties of TypesEqual
\* ------------------------------------------------------------------------

\* the interfaces among the types that are compared, top and not
TopInterfaces == {t \in ConstraintTypes : heap[t].kind = "Iface" /\ heap[t].isEmpty}
MethodInterfaces == {t \in ConstraintTypes : heap[t].kind = "Iface" /\ ~heap[t].isEmpty}

\* the names of the methods an interface declares
declared(t) ==
  {EntriesOf(heap, heap[t].methods)[i].key : i \in 1..Len(EntriesOf(heap, heap[t].methods))}

\* C28: TypesEqual is a structural equality: it is reflexive and symmetric,
\* two top interfaces are equal, and two interfaces that are not top are equal
\* only if they declare the same set of methods.
C28_StructuralEquality ==
  /\ \A a \in ConstraintTypes : TypesEqual(heap, a, a)
  /\ \A a \in ConstraintTypes, b \in ConstraintTypes :
       TypesEqual(heap, a, b) = TypesEqual(heap, b, a)
  /\ \A a \in TopInterfaces, b \in TopInterfaces : TypesEqual(heap, a, b)
  /\ \A a \in MethodInterfaces, b \in MethodInterfaces :
       TypesEqual(heap, a, b) => declared(a) = declared(b)

\* ------------------------------------------------------------------------
\* Properties of termination
\* ------------------------------------------------------------------------

\* C29: Unify and resolve always terminate: in every environment reachable
\* from the empty one by calls of Unify, every call that was made has
\* returned, resolve returns for every type and every further call
\* Unify(a, b, env) returns.
C29_UnifyTerminates ==
  /\ last.err # "diverge"
  /\ \A a \in Types : resolve(a, env) # Diverges
  /\ \A a \in Types, b \in Types, o \in Orders : Unify(a, b, env, o).err # "diverge"

\* ------------------------------------------------------------------------
\* Properties of Unify on failure
\* ------------------------------------------------------------------------

\* the positions of a type in the order Unify goes through them: the
\* parameters and then the return type, the key and then the value
positions(t) ==
  CASE heap[t].kind = "Func" -> Append(heap[t].params, heap[t].ret)
    [] heap[t].kind = "Tuple" -> heap[t].types
    [] heap[t].kind = "Generic" -> heap[t].typeParams
    [] heap[t].kind = "Map" -> <<heap[t].keyT, heap[t].valT>>
    [] OTHER -> <<>>

\* the types that are unified here: those of the calls, and the maps and the
\* tuple whose first position binds a variable or fails
Positionals == Types \cup {A("mTInt"), A("mIntStr"), A("tTInt")}

\* two types of one variant whose positions Unify goes through
positional(a, b) ==
  /\ heap[a].kind \in {"Func", "Tuple", "Generic", "Map"}
  /\ heap[b].kind = heap[a].kind
  /\ Len(positions(a)) = Len(positions(b))
  /\ heap[a].kind = "Func" => heap[a].isVariadic = heap[b].isVariadic
  /\ heap[a].kind = "Generic" => heap[a].name = heap[b].name

\* the positions unified one call of Unify after the other on one
\* environment, from the left, up to the first call that returns an error
RECURSIVE oneByOne(_, _, _, _, _)
oneByOne(xs, ys, i, r, o) ==
  IF i > Len(xs) \/ r.err # "nil" THEN r
  ELSE oneByOne(xs, ys, i + 1, Unify(xs[i], ys[i], r.env, o), o)

\* C30: Unify is not atomic on failure: the bindings of the positions before
\* the one that fails remain in env, and the error is that of the first
\* position, from the left, that does not unify (parameters before the return
\* type, keys before values); Unify(func(T) string, func(int) int, env) with T
\* unbound returns TypeMismatch and leaves T bound to int.
C30_NoRollback ==
  /\ \A o \in Orders :
       env["T"] = Nil =>
         Unify(A("fT_str"), A("fInt_int"), env, o)
           = Res("TypeMismatch", [env EXCEPT !["T"] = A("cInt")])
  /\ \A a \in Positionals, b \in Positionals, o \in Orders :
       (/\ positional(a, b)
        /\ Unify(a, b, env, o).err # "diverge")
         => Unify(a, b, env, o) = oneByOne(positions(a), positions(b), 1, Res("nil", env), o)

\* a call has failed on the return types and has left T, and nothing else,
\* bound to the int of the parameter
C30_Witness ==
  /\ last = [op |-> "Unify", err |-> "TypeMismatch"]
  /\ env = [EmptyEnv EXCEPT !["T"] = A("cInt")]

====
